---- MODULE Spec2Model ----
(***************************************************************************)
(* A model of the BeyondStorage code quality checker (Code_Analysis):      *)
(* the orchestrator of code_check.py (main, run_all_checks, check_file)    *)
(* and the string-based rules of string_checks.py and harmony_checks.py.   *)
(* The orchestrator sees a rule as the list of issues it returns; the      *)
(* rules themselves are modelled on text, read character by character as   *)
(* the code reads it, each under a specification of its own.               *)
(***************************************************************************)
EXTENDS Integers, Sequences, FiniteSets, TLC

VARIABLES
    pc,                 \* position of main(): "start", "checking", "returned", "exited"
    forbidden_strings,  \* CodeQualityChecker.forbidden_strings, in insertion order
    roslyn,             \* ROSLYN_AVAILABLE, fixed at import
    cs_files,           \* the list find_cs_files returned
    fidx,               \* number of files check_file has been called on
    all_issues,         \* run_all_checks' aggregate list
    checked,            \* history: one record per check_file call
    errors,             \* run_all_checks' errors list
    warnings,           \* run_all_checks' warnings list
    success,            \* the value run_all_checks returned
    exit_code,          \* the code main() passed to sys.exit, -1 before
    arg,                \* the input of the rule under analysis
    ret                 \* what the rule returned, or what write_results did

vars == <<pc, forbidden_strings, roslyn, cs_files, fidx, all_issues, checked,
          errors, warnings, success, exit_code, arg, ret>>

orchVars == <<pc, forbidden_strings, roslyn, cs_files, fidx, all_issues, checked,
              errors, warnings, success, exit_code>>

(***************************************************************************)
(* Bounds of the model.                                                    *)
(***************************************************************************)
MaxFiles == 2        \* .cs files a run discovers
MaxIssues == 2       \* issues a run aggregates

(***************************************************************************)
(* Generic helpers.                                                        *)
(***************************************************************************)
Max(a, b) == IF a >= b THEN a ELSE b

Min(a, b) == IF a <= b THEN a ELSE b

Range(s) == {s[i] : i \in 1..Len(s)}

RECURSIVE Flatten(_)
Flatten(ss) == IF ss = <<>> THEN <<>> ELSE Head(ss) \o Flatten(Tail(ss))

\* The elements of a finite set of integers in ascending order (sorted()).
RECURSIVE SortedSeq(_)
SortedSeq(S) ==
    IF S = {} THEN <<>>
    ELSE LET m == CHOOSE x \in S : \A y \in S : x <= y
         IN <<m>> \o SortedSeq(S \ {m})

\* s[i - 1] of a str
Char(s, i) == SubSeq(s, i, i)

AsciiDigits == "0123456789"

\* str(int) for a natural number
RECURSIVE ToStr(_)
ToStr(n) ==
    IF n < 10 THEN Char(AsciiDigits, n + 1)
    ELSE ToStr(n \div 10) \o Char(AsciiDigits, (n % 10) + 1)

\* s * n
RECURSIVE Repeat(_, _)
Repeat(s, n) == IF n = 0 THEN "" ELSE s \o Repeat(s, n - 1)

(***************************************************************************)
(* models.py                                                               *)
(***************************************************************************)
Issue(fp, ln, sev, code, desc) ==
    [file_path |-> fp, line_number |-> ln, severity |-> sev, code |-> code,
     description |-> desc]

CheckResult(name, issues) == [check_name |-> name, issues |-> issues]

\* CheckResult.errors
ResultErrors(r) == SelectSeq(r.issues, LAMBDA i : i.severity = "error")

\* CheckResult.warnings
ResultWarnings(r) == SelectSeq(r.issues, LAMBDA i : i.severity = "warning")

(***************************************************************************)
(* utils.py: paths are sequences of path characters; the k-th file name in *)
(* lexicographic order is the character k.                                 *)
(***************************************************************************)
StartsWith(s, p) == Len(s) >= Len(p) /\ SubSeq(s, 1, Len(p)) = p

\* clean_file_path: strip "./" or ".\"; a path not starting with "." is made
\* relative to the working directory, which leaves a relative path as it is.
clean_file_path(fp) ==
    IF StartsWith(fp, <<".", "/">>) \/ StartsWith(fp, <<".", "\\">>)
    THEN SubSeq(fp, 3, Len(fp))
    ELSE fp

\* os.path.join(root, file) for a file found by os.walk(".")
WalkPath(k) == <<".", "/", k>>

\* find_cs_files: the .cs files on disk, sorted
find_cs_files(disk) == [i \in 1..Cardinality(disk) |-> WalkPath(SortedSeq(disk)[i])]

(***************************************************************************)
(* code_check.py: the registry of forbidden strings.  A dict keeps its     *)
(* keys in insertion order; assigning to a key that exists replaces the    *)
(* value and keeps the key's place.                                        *)
(***************************************************************************)
Registration(p, sev, code, desc) ==
    [pattern |-> p, severity |-> sev, code |-> code, description |-> desc]

\* CodeQualityChecker._register_forbidden_strings
BuiltInForbidden ==
    << Registration("throw new NotImplementedException(", "error", "BCS002", "NotImplementedException found"),
       Registration("name} ", "error", "BCS004", "Logging format violation"),
       Registration("System.Threading.Thread.Sleep", "error", "BCS030", "Thread.Sleep"),
       Registration("Console.WriteLine", "warning", "BCW001", "Console.WriteLine"),
       Registration("Debug.Log", "warning", "BCW002", "Debug.Log"),
       Registration("UnityEngine.Debug.Log", "warning", "BCW003", "Unity Debug.Log"),
       Registration(".Result", "warning", "BCW060", "Synchronous access to async result"),
       Registration("ExtraLogging = true", "warning", "BCW061", "Too much logging") >>

\* self.forbidden_strings[forbidden_string] = (severity, code, description)
add_forbidden_string_check(reg, p, sev, code, desc) ==
    IF \E i \in 1..Len(reg) : reg[i].pattern = p
    THEN [i \in 1..Len(reg) |->
            IF reg[i].pattern = p THEN Registration(p, sev, code, desc) ELSE reg[i]]
    ELSE Append(reg, Registration(p, sev, code, desc))

(***************************************************************************)
(* What the rules can report.  In the orchestrator a file's content is     *)
(* abstracted to what the rules find in it: hits, the forbidden patterns   *)
(* that occur in it, and found, the indices in RuleKinds of the findings   *)
(* the other rules make.  Every such finding is reported on FoundLine.     *)
(***************************************************************************)
Kind(rule, code, sev) == [rule |-> rule, code |-> code, severity |-> sev]

\* The issues each rule constructs: (check name, code, severity).
RuleKinds ==
    << Kind("harmony_patch_classes_string", "BCS050", "error"),
       Kind("harmony_patch_classes_string", "BCS051", "error"),
       Kind("harmony_patch_methods_string", "BCS052", "error"),
       Kind("harmony_patch_methods_string", "BCS053", "error"),
       Kind("harmony_patch_methods_string", "BCS054", "error"),
       Kind("empty_catch_blocks_string", "BCS003", "error"),
       Kind("magic_numbers_string", "BCW012", "warning"),
       Kind("cyclomatic_complexity_string", "BCW040", "warning"),
       Kind("harmony_patch_classes_roslyn", "BCS050", "error"),
       Kind("harmony_patch_methods_roslyn", "BCS052", "error"),
       Kind("harmony_patch_methods_roslyn", "BCS053", "error"),
       Kind("empty_catch_blocks_roslyn", "BCS003", "error"),
       Kind("magic_numbers_roslyn", "BCW012", "warning"),
       Kind("cyclomatic_complexity_roslyn", "BCW040", "warning"),
       Kind("todo_comments", "BCW013", "warning"),
       Kind("null_checks", "BCW022", "warning"),
       Kind("disposable_usage", "BCS010", "error"),
       Kind("string_interpolation", "BCW021", "warning"),
       Kind("string_in_loops", "BCW025", "warning"),
       Kind("linq_performance", "BCW026", "warning"),
       Kind("linq_performance", "BCW027", "warning"),
       Kind("excessive_nesting_string", "BCW010", "warning"),
       Kind("excessive_nesting_roslyn", "BCW010", "warning") >>

\* The rules that build their issues with the path as given (roslyn_analyzer.py);
\* the string rules build them with clean_file_path(file_path).
RoslynRules ==
    << "harmony_patch_classes_roslyn", "harmony_patch_methods_roslyn",
       "empty_catch_blocks_roslyn", "magic_numbers_roslyn",
       "cyclomatic_complexity_roslyn" >>

\* CodeQualityChecker._run_string_based_checks, in call order
StringRules ==
    << "harmony_patch_classes_string", "harmony_patch_methods_string",
       "empty_catch_blocks_string", "magic_numbers_string",
       "cyclomatic_complexity_string" >>

\* CodeQualityChecker._run_additional_string_checks, in call order
AdditionalRules ==
    << "todo_comments", "null_checks", "disposable_usage", "string_interpolation",
       "string_in_loops", "linq_performance" >>

\* The patterns a file of the model may hold.
ContentPatterns == {"throw new NotImplementedException(", "Console.WriteLine"}

FoundLine == 1

\* The issues a rule returns for a content: its findings, in RuleKinds order.
RuleFindings(rule, fp, content) ==
    LET ks == SelectSeq(SortedSeq(content.found), LAMBDA k : RuleKinds[k].rule = rule)
    IN [i \in 1..Len(ks) |->
          Issue(fp, FoundLine, RuleKinds[ks[i]].severity, RuleKinds[ks[i]].code,
                RuleKinds[ks[i]].rule)]

\* StringBasedChecker.check_forbidden_strings: for each registered pattern, in
\* registration order, one issue for each line that holds it.
check_forbidden_strings(fp, content, reg) ==
    LET on == SelectSeq(reg, LAMBDA r : r.pattern \in content.hits)
    IN [i \in 1..Len(on) |->
          Issue(clean_file_path(fp), FoundLine, on[i].severity, on[i].code,
                on[i].description)]

(***************************************************************************)
(* code_check.py: CodeQualityChecker.check_file.  A call of a rule is      *)
(* recorded as [name, issues]; the rule's result is appended to results    *)
(* only "if issues".                                                       *)
(***************************************************************************)
Call(name, issues) == [name |-> name, issues |-> issues]

\* for issue in issues: issue.file_path = clean_file_path(issue.file_path)
CleanIssues(issues) ==
    [i \in 1..Len(issues) |-> [issues[i] EXCEPT !.file_path = clean_file_path(@)]]

\* The roslyn_analyzer.check_* calls of check_file, in call order.
RoslynCalls(fp, content) ==
    [i \in 1..Len(RoslynRules) |->
        Call(RoslynRules[i], CleanIssues(RuleFindings(RoslynRules[i], fp, content)))]

\* CodeQualityChecker._run_string_based_checks
StringCalls(fp, content) ==
    [i \in 1..Len(StringRules) |->
        Call(StringRules[i], RuleFindings(StringRules[i], clean_file_path(fp), content))]

AdditionalCallsReversed(fp, content) ==
    [i \in 1..Len(AdditionalRules) |->
        Call(AdditionalRules[Len(AdditionalRules) + 1 - i],
             RuleFindings(AdditionalRules[Len(AdditionalRules) + 1 - i],
                          clean_file_path(fp), content))]

\* CodeQualityChecker._run_additional_string_checks
AdditionalCalls(fp, content) ==
    [i \in 1..Len(AdditionalRules) |->
        Call(AdditionalRules[i],
             RuleFindings(AdditionalRules[i], clean_file_path(fp), content))]

\* if self.forbidden_strings: issues = check_forbidden_strings(...)
ForbiddenCalls(fp, content, reg) ==
    IF reg # <<>>
    THEN <<Call("forbidden_strings", check_forbidden_strings(fp, content, reg))>>
    ELSE <<>>

ModeCallsNoFallback(fp, content, analyzer, parsed) ==
    IF analyzer
    THEN IF parsed THEN RoslynCalls(fp, content) ELSE <<>>
    ELSE StringCalls(fp, content)

\* The mode-specific part: the Roslyn checks if the analyzer exists and
\* parse_file returned a tree and a root, the string-based checks otherwise.
ModeCalls(fp, content, analyzer, parsed) ==
    IF analyzer
    THEN IF parsed THEN RoslynCalls(fp, content) ELSE StringCalls(fp, content)
    ELSE StringCalls(fp, content)

FileReadErrorAsWarning(fp) ==
    CheckResult("file_read_error",
                <<Issue(clean_file_path(fp), 1, "warning", "BCS999", "Failed to read file")>>)

\* The CheckResult for a failed read.
FileReadError(fp) ==
    CheckResult("file_read_error",
                <<Issue(clean_file_path(fp), 1, "error", "BCS999", "Failed to read file")>>)

\* The roslyn_analyzer.check_* calls with the issues as the rules return them.
RoslynReturned(fp, content) ==
    [i \in 1..Len(RoslynRules) |->
        Call(RoslynRules[i], RuleFindings(RoslynRules[i], fp, content))]

\* The mode-specific calls with the issues as the rules return them.
ModeReturned(fp, content, analyzer, parsed) ==
    IF analyzer /\ parsed THEN RoslynReturned(fp, content) ELSE StringCalls(fp, content)

\* check_file: [results |-> the list returned, ran |-> the rules called,
\* returned |-> the non-empty issue lists as the rules returned them]
check_file(fp, readable, parsed, content, reg, analyzer) ==
    IF ~readable
    THEN [results |-> <<FileReadError(fp)>>, ran |-> <<>>, returned |-> <<FileReadError(fp)>>]
    ELSE LET calls == ForbiddenCalls(fp, content, reg)
                      \o ModeCalls(fp, content, analyzer, parsed)
                      \o AdditionalCalls(fp, content)
             kept == SelectSeq(calls, LAMBDA c : c.issues # <<>>)
             made == SelectSeq(ForbiddenCalls(fp, content, reg)
                                   \o ModeReturned(fp, content, analyzer, parsed)
                                   \o AdditionalCalls(fp, content),
                               LAMBDA c : c.issues # <<>>)
         IN [results |-> [i \in 1..Len(kept) |-> CheckResult(kept[i].name, kept[i].issues)],
             ran |-> [i \in 1..Len(calls) |-> calls[i].name],
             returned |-> [i \in 1..Len(made) |-> CheckResult(made[i].name, made[i].issues)]]

(***************************************************************************)
(* The contents a file may have: at most n findings.                       *)
(***************************************************************************)
RECURSIVE SubsetsUpTo(_, _)
SubsetsUpTo(U, n) ==
    IF n = 0 THEN {{}}
    ELSE LET P == SubsetsUpTo(U, n - 1)
         IN P \cup {s \cup {x} : s \in P, x \in U}

\* One finding per rule: the first of the issues the rule constructs.
FoundUniverse ==
    {k \in 1..Len(RuleKinds) : \A j \in 1..(k - 1) : RuleKinds[j].rule # RuleKinds[k].rule}

Contents(n) ==
    {[hits |-> h, found |-> f] :
        h \in SubsetsUpTo(ContentPatterns, n), f \in SubsetsUpTo(FoundUniverse, n)}

ContentSize(c) == Cardinality(c.hits) + Cardinality(c.found)

(***************************************************************************)
(* main() and run_all_checks                                               *)
(***************************************************************************)
Idle == <<>>

Init ==
    /\ pc = "start"
    /\ forbidden_strings = BuiltInForbidden
    /\ roslyn \in BOOLEAN
    /\ cs_files = <<>>
    /\ fidx = 0
    /\ all_issues = <<>>
    /\ checked = <<>>
    /\ errors = <<>>
    /\ warnings = <<>>
    /\ success = FALSE
    /\ exit_code = -1
    /\ arg = Idle
    /\ ret = Idle

\* The sets of .cs files os.walk may find: the first n names, n <= MaxFiles.
Disks == {1..n : n \in 0..MaxFiles}

\* run_all_checks up to the loop: find_cs_files, and the early return
\* "No C# files found" (True).
RunStart ==
    /\ pc = "start"
    /\ \E disk \in Disks :
          /\ cs_files' = find_cs_files(disk)
          /\ IF disk = {}
             THEN pc' = "returned" /\ success' = TRUE
             ELSE pc' = "checking" /\ success' = success
    /\ UNCHANGED <<forbidden_strings, roslyn, fidx, all_issues, checked, errors,
                   warnings, exit_code, arg, ret>>

\* One iteration of "for file_path in cs_files": check_file, then
\* all_issues.extend(result.issues) for each result.
CheckFile ==
    /\ pc = "checking"
    /\ fidx < Len(cs_files)
    /\ \E readable \in BOOLEAN, parsed \in BOOLEAN,
          content \in Contents(MaxIssues - Len(all_issues)) :
          LET fp == cs_files[fidx + 1]
              out == check_file(fp, readable, parsed, content, forbidden_strings, roslyn)
              new == Flatten([i \in 1..Len(out.results) |-> out.results[i].issues])
          IN /\ ContentSize(content) <= MaxIssues - Len(all_issues)
             /\ Len(all_issues) + Len(new) <= MaxIssues
             /\ all_issues' = all_issues \o new
             /\ checked' = Append(checked,
                                  [file |-> fp, readable |-> readable,
                                   parsed |-> roslyn /\ parsed,
                                   results |-> out.results, ran |-> out.ran,
                                   returned |-> out.returned])
    /\ fidx' = fidx + 1
    /\ UNCHANGED <<pc, forbidden_strings, roslyn, cs_files, errors, warnings, success,
                   exit_code, arg, ret>>

\* errors = [issue for issue in all_issues if issue.severity == "error"]
ErrorsOf(issues) == SelectSeq(issues, LAMBDA i : i.severity = "error")

\* warnings = [issue for issue in all_issues if issue.severity == "warning"]
WarningsOf(issues) == SelectSeq(issues, LAMBDA i : i.severity = "warning")

\* return len(errors) == 0
Verdict(errs) == Len(errs) = 0

ExitCodeInverted(ok) == IF ok THEN 1 ELSE 0

\* sys.exit(0 if success else 1)
ExitCodeOf(ok) == IF ok THEN 0 ELSE 1

(***************************************************************************)
(* reporter.py: the report                                                 *)
(***************************************************************************)
\* The name of the k-th file is k followed by ".cs".
PathText(fp) ==
    IF Len(fp) = 1 THEN ToStr(fp[1]) \o ".cs"
    ELSE fp[1] \o fp[2] \o ToStr(fp[3]) \o ".cs"

\* Reporter.format_issue_compiler_style
format_issue_compiler_style(issue) ==
    PathText(issue.file_path) \o "(" \o ToStr(issue.line_number) \o "): " \o issue.severity
        \o " " \o issue.code \o ": " \o issue.description

FormatAll(issues) == [i \in 1..Len(issues) |-> format_issue_compiler_style(issues[i])]

Divider == Repeat("-", 40)

\* One block of the report: header, divider, one line per issue, empty line;
\* nothing for an empty list.
ReportBlock(header, issues) ==
    IF issues = <<>> THEN <<>>
    ELSE <<header, Divider>> \o FormatAll(issues) \o <<"">>

ReportBlocksErrorsFirst(errs, warns) ==
    ReportBlock("ERRORS:", errs) \o ReportBlock("WARNINGS:", warns)

\* "Show warnings first", "Show errors last"
ReportBlocks(errs, warns) ==
    ReportBlock("WARNINGS:", warns) \o ReportBlock("ERRORS:", errs)

BuildStatus(errs, warns) ==
    IF errs # <<>> THEN "BUILD STATUS: FAILED (errors found)"
    ELSE IF warns # <<>> THEN "BUILD STATUS: PASSED (warnings only)"
    ELSE "BUILD STATUS: PASSED (no issues)"

\* The lines write_results builds for the console and the file
OutputLines(errs, warns, cs_files_count, parsing_method) ==
    ReportBlocks(errs, warns)
        \o <<"Code check completed: " \o ToStr(Len(errs)) \o " error(s), " \o ToStr(Len(warns))
                \o " warning(s) found in " \o ToStr(cs_files_count) \o " files.",
             BuildStatus(errs, warns),
             "PARSING METHOD: " \o parsing_method>>

\* The warning printed for an IOError, up to the text of the error
WriteWarning(results_file) == "Warning: Could not write results file " \o results_file

\* Reporter.write_results at the instant now; writable is FALSE where writing
\* the file raises IOError.  The result gives the returned name, the lines
\* built, the lines printed and the lines of the file (after its header).
write_results(errs, warns, cs_files_count, parsing_method, now, writable) ==
    LET results_file == "code_check_results_" \o now \o ".txt"
        output_lines == OutputLines(errs, warns, cs_files_count, parsing_method)
    IN IF writable
       THEN [results_file |-> results_file,
             output_lines |-> output_lines,
             printed |-> output_lines,
             written |-> TRUE,
             file |-> output_lines]
       ELSE [results_file |-> "",
             output_lines |-> output_lines,
             printed |-> <<WriteWarning(results_file)>>,
             written |-> FALSE,
             file |-> <<>>]

\* parsing_method of run_all_checks
ParsingMethod(analyzer) ==
    IF analyzer THEN "Hybrid (Roslyn + String-based)" ELSE "String-based only"

\* The instant of the run, as strftime("%Y%m%d_%H%M%S") gives it
ReportTime == "20260101_120000"

\* The end of run_all_checks: the two lists, write_results, the verdict.
Report ==
    /\ pc = "checking"
    /\ fidx = Len(cs_files)
    /\ errors' = ErrorsOf(all_issues)
    /\ warnings' = WarningsOf(all_issues)
    /\ \E writable \in BOOLEAN :
          ret' = write_results(errors', warnings', Len(cs_files), ParsingMethod(roslyn),
                               ReportTime, writable)
    /\ success' = Verdict(errors')
    /\ pc' = "returned"
    /\ UNCHANGED <<forbidden_strings, roslyn, cs_files, fidx, all_issues, checked,
                   exit_code, arg>>

Exit ==
    /\ pc = "returned"
    /\ exit_code' = ExitCodeOf(success)
    /\ pc' = "exited"
    /\ UNCHANGED <<forbidden_strings, roslyn, cs_files, fidx, all_issues, checked,
                   errors, warnings, success, arg, ret>>

Next == RunStart \/ CheckFile \/ Report \/ Exit

Spec == Init /\ [][Next]_vars

(***************************************************************************)
(* The checker used as a library: add_forbidden_string_check is public and *)
(* may be called on the constructed checker before the run.                *)
(***************************************************************************)
RegisterPatterns == {"Console.WriteLine", "custom"}

RegisterSeverities == {"error", "warning", "info"}

Register ==
    /\ pc = "start"
    /\ \E p \in RegisterPatterns, sev \in RegisterSeverities :
          forbidden_strings' =
              add_forbidden_string_check(forbidden_strings, p, sev, "BCX900", "custom check")
    /\ UNCHANGED <<pc, roslyn, cs_files, fidx, all_issues, checked, errors, warnings,
                   success, exit_code, arg, ret>>

NextApi == Next \/ Register

SpecApi == Init /\ [][NextApi]_vars

(***************************************************************************)
(* Properties of the orchestrator.                                         *)
(***************************************************************************)
HasError(issues) == \E i \in 1..Len(issues) : issues[i].severity = "error"

HasWarning(issues) == \E i \in 1..Len(issues) : issues[i].severity = "warning"

\* C1: main() exits with code 0 if and only if the aggregated issue list holds
\* no issue of severity "error" (also when no file was found), and with code 1
\* otherwise; warnings do not change the exit code.
C1_ExitCodeLaw ==
    pc = "exited" =>
        /\ exit_code \in {0, 1}
        /\ exit_code = 0 <=> ~HasError(all_issues)

\* C1 witness: a run that aggregated a warning and no error has exited with 0.
C1_Witness ==
    /\ pc = "exited"
    /\ exit_code = 0
    /\ HasWarning(all_issues)
    /\ Len(cs_files) = MaxFiles

\* C2: every aggregated issue has severity "error" or "warning", and after the
\* partition of run_all_checks the errors and the warnings are disjoint and hold
\* every aggregated issue exactly once.
C2_SeverityPartition ==
    /\ \A i \in 1..Len(all_issues) : all_issues[i].severity \in {"error", "warning"}
    /\ (pc \in {"returned", "exited"} /\ cs_files # <<>>) =>
          /\ Len(errors) + Len(warnings) = Len(all_issues)
          /\ \A i \in 1..Len(all_issues) :
                \/ all_issues[i] \in Range(errors) /\ all_issues[i] \notin Range(warnings)
                \/ all_issues[i] \in Range(warnings) /\ all_issues[i] \notin Range(errors)

AllResultsIssues(cs) ==
    Flatten([i \in 1..Len(cs) |->
                Flatten([j \in 1..Len(cs[i].results) |-> cs[i].results[j].issues])])

\* C3: an unreadable file gives exactly one CheckResult with exactly one issue
\* (error, BCS999, line 1) and no rule is run on it; the run goes on: every
\* discovered file is checked and the issues of all of them are aggregated and
\* reported.
C3_ReadFailure ==
    /\ \A k \in 1..Len(checked) :
          ~checked[k].readable =>
              /\ checked[k].ran = <<>>
              /\ Len(checked[k].results) = 1
              /\ Len(checked[k].results[1].issues) = 1
              /\ checked[k].results[1].issues[1].severity = "error"
              /\ checked[k].results[1].issues[1].code = "BCS999"
              /\ checked[k].results[1].issues[1].line_number = 1
    /\ all_issues = AllResultsIssues(checked)
    /\ (pc \in {"returned", "exited"}) =>
          /\ Len(checked) = Len(cs_files)
          /\ \A k \in 1..Len(checked) : checked[k].file = cs_files[k]
          /\ cs_files # <<>> => Len(errors) + Len(warnings) = Len(all_issues)

\* C3 witness: a run in which an unreadable file was followed by a readable
\* file with a finding, both reported.
C3_Witness ==
    /\ pc = "exited"
    /\ Len(checked) = 2
    /\ ~checked[1].readable
    /\ checked[2].readable
    /\ checked[2].results # <<>>
    /\ Len(all_issues) = 2

RanAll(c, rules) == \A i \in 1..Len(rules) : rules[i] \in Range(c.ran)

RanNone(c, rules) == \A i \in 1..Len(rules) : rules[i] \notin Range(c.ran)

\* C4: on a readable file exactly one of the two mode-specific rule sets runs:
\* the structural rules iff the analyzer is available and parse_file returned a
\* tree and a root, the string-based ones otherwise; a parse failure adds no
\* issue of its own.
C4_ExactlyOneMode ==
    \A k \in 1..Len(checked) :
        checked[k].readable =>
            /\ IF roslyn /\ checked[k].parsed
               THEN RanAll(checked[k], RoslynRules) /\ RanNone(checked[k], StringRules)
               ELSE RanAll(checked[k], StringRules) /\ RanNone(checked[k], RoslynRules)
            /\ \A j \in 1..Len(checked[k].results) :
                  checked[k].results[j].check_name \in Range(checked[k].ran)

\* C4 witness: with the analyzer available, one file was parsed and another
\* fell back to the string rules.
C4_Witness ==
    /\ roslyn
    /\ Len(checked) = 2
    /\ checked[1].readable /\ checked[1].parsed
    /\ checked[2].readable /\ ~checked[2].parsed
    /\ checked[2].results # <<>>

\* The six rule categories that exist in both forms.
Categories ==
    { {"harmony_patch_classes_string", "harmony_patch_classes_roslyn"},
      {"harmony_patch_methods_string", "harmony_patch_methods_roslyn"},
      {"empty_catch_blocks_string", "empty_catch_blocks_roslyn"},
      {"magic_numbers_string", "magic_numbers_roslyn"},
      {"cyclomatic_complexity_string", "cyclomatic_complexity_roslyn"},
      {"excessive_nesting_string", "excessive_nesting_roslyn"} }

\* C5: on every readable file, in both modes, check_file evaluates a rule of
\* each of the six categories (patch classes, patch methods, empty catch, magic
\* numbers, cyclomatic complexity, excessive nesting).
C5_AllCategoriesRun ==
    \A k \in 1..Len(checked) :
        checked[k].readable =>
            \A cat \in Categories : \E r \in cat : r \in Range(checked[k].ran)

\* The order of the check names as the claim gives it.
ClaimedOrder(structural) ==
    <<"forbidden_strings">>
    \o (IF structural
        THEN <<"harmony_patch_classes_roslyn", "harmony_patch_methods_roslyn",
               "empty_catch_blocks_roslyn", "magic_numbers_roslyn",
               "cyclomatic_complexity_roslyn">>
        ELSE <<"harmony_patch_classes_string", "harmony_patch_methods_string",
               "empty_catch_blocks_string", "magic_numbers_string",
               "cyclomatic_complexity_string">>)
    \o <<"todo_comments", "null_checks", "disposable_usage", "string_interpolation",
         "string_in_loops", "linq_performance">>

PositionIn(s, x) == CHOOSE i \in 1..Len(s) : s[i] = x

\* C6: the list check_file returns for a readable file holds only results with
\* at least one issue, in the fixed order forbidden_strings, the mode-specific
\* results, the six string-only results; the six string-only rules run in both
\* modes.
C6_ResultOrder ==
    \A k \in 1..Len(checked) :
        checked[k].readable =>
            LET rs == checked[k].results
                order == ClaimedOrder(roslyn /\ checked[k].parsed)
            IN /\ \A j \in 1..Len(rs) :
                     /\ rs[j].issues # <<>>
                     /\ rs[j].check_name \in Range(order)
               /\ \A i, j \in 1..Len(rs) :
                     i < j => PositionIn(order, rs[i].check_name)
                                < PositionIn(order, rs[j].check_name)
               /\ \A r \in {"todo_comments", "null_checks", "disposable_usage",
                           "string_interpolation", "string_in_loops", "linq_performance"} :
                     r \in Range(checked[k].ran)

\* C6 witness: a file for which forbidden_strings and a string-only rule both
\* reported, returned in that order.
C6_Witness ==
    \E k \in 1..Len(checked) :
        /\ checked[k].readable
        /\ Len(checked[k].results) = 2
        /\ checked[k].results[1].check_name = "forbidden_strings"
        /\ checked[k].results[2].check_name = "linq_performance"

(***************************************************************************)
(* Text: a str is a string; s[i] is Char(s, i + 1).                        *)
(***************************************************************************)
CharsOf(s) == {Char(s, i) : i \in 1..Len(s)}

SetMin(S) == CHOOSE x \in S : \A y \in S : x <= y

SetMax(S) == CHOOSE x \in S : \A y \in S : x >= y

\* str.find, 1-based: the first index at which sub occurs in s, 0 for none.
Find(s, sub) ==
    LET hits == {i \in 1..(Len(s) - Len(sub) + 1) : SubSeq(s, i, i + Len(sub) - 1) = sub}
    IN IF hits = {} THEN 0 ELSE SetMin(hits)

\* "sub in s"
Contains(s, sub) == Find(s, sub) # 0

\* str.count of a single character
Count(s, c) == Cardinality({i \in 1..Len(s) : Char(s, i) = c})

Whitespace == {" ", "\t", "\r", "\n"}

\* str.strip()
Strip(s) ==
    LET keep == {i \in 1..Len(s) : Char(s, i) \notin Whitespace}
    IN IF keep = {} THEN "" ELSE SubSeq(s, SetMin(keep), SetMax(keep))

\* str.split(sep) for a one-character separator; the text is cut at the
\* separator nearest to its middle, so that long contents are split in few
\* nested steps.
RECURSIVE Split(_, _)
Split(s, sep) ==
    LET at == {i \in 1..Len(s) : Char(s, i) = sep}
        right == {i \in at : 2 * i >= Len(s)}
        m == IF right # {} THEN SetMin(right) ELSE SetMax(at)
    IN IF at = {} THEN <<s>>
       ELSE Split(SubSeq(s, 1, m - 1), sep) \o Split(SubSeq(s, m + 1, Len(s)), sep)

\* sep.join(parts), joined by halves
RECURSIVE Join(_, _)
Join(parts, sep) ==
    LET h == Len(parts) \div 2
    IN IF parts = <<>> THEN ""
       ELSE IF Len(parts) = 1 THEN parts[1]
       ELSE Join(SubSeq(parts, 1, h), sep) \o sep \o Join(SubSeq(parts, h + 1, Len(parts)), sep)

AsciiUpper == "ABCDEFGHIJKLMNOPQRSTUVWXYZ"

AsciiLower == "abcdefghijklmnopqrstuvwxyz"

\* Characters outside ASCII for which str.isalnum() is true (a sample).
UnicodeAlnum == {"é"}

\* char.isalnum()
IsAlnum(c) == c \in CharsOf(AsciiUpper) \cup CharsOf(AsciiLower) \cup CharsOf(AsciiDigits) \cup UnicodeAlnum

\* str.lower()
LowerChar(c) == IF Contains(AsciiUpper, c) THEN Char(AsciiLower, Find(AsciiUpper, c)) ELSE c

RECURSIVE Lower(_)
Lower(s) ==
    IF Len(s) = 0 THEN ""
    ELSE IF Len(s) = 1 THEN LowerChar(s)
    ELSE Lower(SubSeq(s, 1, Len(s) \div 2)) \o Lower(SubSeq(s, (Len(s) \div 2) + 1, Len(s)))

\* int(str) of a string of decimal digits
RECURSIVE ToInt(_)
ToInt(s) ==
    IF s = "" THEN 0
    ELSE 10 * ToInt(SubSeq(s, 1, Len(s) - 1)) + (Find(AsciiDigits, Char(s, Len(s))) - 1)

\* Optional[str]
None == [some |-> FALSE, value |-> ""]

Some(v) == [some |-> TRUE, value |-> v]

\* "x if x else None"
NonEmptyOrNone(v) == IF v = "" THEN None ELSE Some(v)

\* All strings over the alphabet A of length at most n.
RECURSIVE Strings(_, _)
Strings(A, n) ==
    IF n = 0 THEN {""}
    ELSE LET shorter == Strings(A, n - 1)
         IN shorter \cup {s \o c : s \in shorter, c \in A}

\* The path of the file a rule is applied to.
RuleFile == WalkPath(1)

(***************************************************************************)
(* harmony_checks.py: HarmonyChecker helpers                               *)
(***************************************************************************)
\* "char.isalnum() or char == '_'"
IsWordChar(c) == IsAlnum(c) \/ c = "_"

\* The loop of _find_word_in_line: the list of words of the line.
RECURSIVE ScanWords(_, _, _, _)
ScanWords(line, i, current_word, words) ==
    IF i > Len(line)
    THEN IF current_word # "" THEN Append(words, current_word) ELSE words
    ELSE IF IsWordChar(Char(line, i))
         THEN ScanWords(line, i + 1, current_word \o Char(line, i), words)
         ELSE ScanWords(line, i + 1, "",
                        IF current_word # "" THEN Append(words, current_word) ELSE words)

find_substring_in_line(line, word) == Contains(Strip(line), word)

_find_word_in_line(line, word) == word \in Range(ScanWords(Strip(line), 1, "", <<>>))

\* The loop of _extract_class_name from index i (1-based).
RECURSIVE ClassNameFrom(_, _, _)
ClassNameFrom(line, i, class_name) ==
    IF i > Len(line) THEN class_name
    ELSE IF IsWordChar(Char(line, i)) THEN ClassNameFrom(line, i + 1, class_name \o Char(line, i))
    ELSE IF Char(line, i) \in {" ", "<", ":", "{", "\t"} THEN class_name
    ELSE ClassNameFrom(line, i + 1, class_name)

_extract_class_name(line) ==
    LET class_index == Find(line, "class ")
    IN IF class_index = 0 THEN None
       ELSE NonEmptyOrNone(ClassNameFrom(line, class_index + 6, ""))

_is_attribute_line(raw) ==
    LET line == Strip(raw)
        close_bracket == Find(line, "]")
        attr_content == SubSeq(line, 2, close_bracket - 1)
        paren_index == Find(attr_content, "(")
    IN IF ~StartsWith(line, "[") THEN None
       ELSE IF close_bracket = 0 THEN None
       ELSE IF paren_index # 0
            THEN NonEmptyOrNone(Strip(SubSeq(attr_content, 1, paren_index - 1)))
            ELSE NonEmptyOrNone(Strip(attr_content))

RECURSIVE RemoveGenericFrom(_, _, _, _)
RemoveGenericFrom(text, i, depth, result) ==
    IF i > Len(text) THEN result
    ELSE IF Char(text, i) = "<" THEN RemoveGenericFrom(text, i + 1, depth + 1, result)
    ELSE IF Char(text, i) = ">" THEN RemoveGenericFrom(text, i + 1, depth - 1, result)
    ELSE IF depth = 0 THEN RemoveGenericFrom(text, i + 1, depth, result \o Char(text, i))
    ELSE RemoveGenericFrom(text, i + 1, depth, result)

_remove_generic_params(text) == RemoveGenericFrom(text, 1, 0, "")

_is_preprocessor_directive(line) ==
    LET stripped == Strip(line)
    IN StartsWith(stripped, "#if") \/ StartsWith(stripped, "#endif") \/ StartsWith(stripped, "#else")

(***************************************************************************)
(* _find_word_in_line applied to every line and word over a small alphabet *)
(***************************************************************************)
MaxLineLen == 4      \* characters of a scanned line
MaxWordLen == 2      \* characters of a searched word

LineAlphabet == {"a", "1", "_", " ", "é"}

WordAlphabet == {"a", "é"}

WordInputs ==
    {[line |-> l, word |-> w] :
        l \in Strings(LineAlphabet, MaxLineLen),
        w \in Strings(WordAlphabet, MaxWordLen) \ {""}}

\* The orchestrator is not running while a single rule is analysed.
OrchestratorIdle ==
    /\ forbidden_strings = <<>>
    /\ roslyn = FALSE
    /\ cs_files = <<>>
    /\ fidx = 0
    /\ all_issues = <<>>
    /\ checked = <<>>
    /\ errors = <<>>
    /\ warnings = <<>>
    /\ success = FALSE
    /\ exit_code = -1

InitWord ==
    /\ pc = "word_call"
    /\ arg \in WordInputs
    /\ ret = Idle
    /\ OrchestratorIdle

FindWord ==
    /\ pc = "word_call"
    /\ ret' = _find_word_in_line(arg.line, arg.word)
    /\ pc' = "word_return"
    /\ UNCHANGED <<forbidden_strings, roslyn, cs_files, fidx, all_issues, checked, errors, warnings, success, exit_code, arg>>

NextWord == FindWord

SpecWord == InitWord /\ [][NextWord]_vars

\* The maximal runs in s of characters satisfying InClass.
MaximalRuns(s, InClass(_)) ==
    {SubSeq(s, p[1], p[2]) : p \in
        {q \in (1..Len(s)) \X (1..Len(s)) :
            /\ q[1] <= q[2]
            /\ \A k \in q[1]..q[2] : InClass(Char(s, k))
            /\ (q[1] = 1 \/ ~InClass(Char(s, q[1] - 1)))
            /\ (q[2] = Len(s) \/ ~InClass(Char(s, q[2] + 1)))}}

\* [A-Za-z0-9_]
IsAsciiWordChar(c) == c \in CharsOf(AsciiUpper) \cup CharsOf(AsciiLower) \cup CharsOf(AsciiDigits) \cup {"_"}

\* C7 as stated: _find_word_in_line(L, W) is true if and only if W equals a
\* maximal run of characters from [A-Za-z0-9_] in L.
C7_AsciiRuns ==
    pc = "word_return" =>
        (ret <=> arg.word \in MaximalRuns(arg.line, IsAsciiWordChar))

\* C7 amended: _find_word_in_line(L, W) is true if and only if W equals a
\* maximal run in L of characters that str.isalnum() accepts (letters and
\* digits of any script) or "_"; a W that occurs in L only inside a longer run
\* is not reported.
C7_WordRuns ==
    pc = "word_return" =>
        /\ ret <=> arg.word \in MaximalRuns(arg.line, IsWordChar)
        /\ (Contains(arg.line, arg.word) /\ arg.word \notin MaximalRuns(arg.line, IsWordChar)) => ~ret

\* C7 witness: the word occurs in the line only inside a longer run and the
\* function has returned False.
C7_Witness ==
    /\ pc = "word_return"
    /\ Contains(arg.line, arg.word)
    /\ arg.word \notin MaximalRuns(arg.line, IsWordChar)
    /\ ret = FALSE

(***************************************************************************)
(* string_checks.py: StringBasedChecker.check_empty_catch_blocks           *)
(***************************************************************************)
\* The scanner's state after lines[1..n]: in_catch, catch_line, brace_count,
\* has_content and the issues so far.
RECURSIVE CatchScan(_, _, _)
CatchScan(file_path, lines, n) ==
    IF n = 0
    THEN [in_catch |-> FALSE, catch_line |-> 0, brace_count |-> 0,
          has_content |-> FALSE, issues |-> <<>>]
    ELSE LET st == CatchScan(file_path, lines, n - 1)
             stripped == Strip(lines[n])
             braces == Count(stripped, "{") - Count(stripped, "}")
             content_seen == IF stripped # "" /\ ~StartsWith(stripped, "//")
                             THEN TRUE ELSE st.has_content
         IN IF stripped = "" \/ StartsWith(stripped, "//") THEN st
            ELSE IF Contains(stripped, "catch") /\ Contains(stripped, "{")
            THEN [st EXCEPT !.in_catch = TRUE, !.catch_line = n,
                            !.brace_count = braces, !.has_content = FALSE]
            ELSE IF st.in_catch
            THEN IF st.brace_count + braces <= 0
                 THEN [st EXCEPT !.brace_count = st.brace_count + braces,
                                 !.has_content = content_seen,
                                 !.in_catch = FALSE,
                                 !.issues = IF ~content_seen
                                            THEN Append(st.issues,
                                                   Issue(clean_file_path(file_path), st.catch_line, "error", "BCS003",
                                                         "Empty catch block found - should handle exceptions properly"))
                                            ELSE st.issues]
                 ELSE [st EXCEPT !.brace_count = st.brace_count + braces,
                                 !.has_content = content_seen]
            ELSE st

check_empty_catch_blocks(file_path, content) ==
    LET lines == Split(content, "\n")
    IN CatchScan(file_path, lines, Len(lines)).issues

(***************************************************************************)
(* check_empty_catch_blocks applied to a try/catch whose catch body is a   *)
(* list of blank, comment and statement lines                              *)
(***************************************************************************)
MaxLead == 7         \* blank lines before the code under analysis
MaxBody == 4         \* lines between the catch line and its closing brace

CatchOpeners == {"} catch (Exception e) {", "catch {"}

BodyLines == {"", "    // ignore", "    Log(e);"}

RECURSIVE Seqs(_, _)
Seqs(S, n) ==
    IF n = 0 THEN {<<>>}
    ELSE LET shorter == Seqs(S, n - 1)
         IN shorter \cup {Append(q, x) : q \in shorter, x \in S}

Blank(n) == [k \in 1..n |-> ""]

CatchInputs ==
    {[lead |-> l, opener |-> o, body |-> b] :
        l \in 0..MaxLead, o \in CatchOpeners, b \in Seqs(BodyLines, MaxBody)}

\* The file of an input: the blank lines, a try block, the catch line, the
\* body and the closing brace.
CatchContent(a) ==
    Join(Blank(a.lead) \o <<"try {", "    DoWork();", a.opener>> \o a.body \o <<"}">>, "\n")

\* The 1-based line of the catch line of an input.
CatchLineOf(a) == a.lead + 3

InitCatch ==
    /\ pc = "catch_call"
    /\ arg \in CatchInputs
    /\ ret = Idle
    /\ OrchestratorIdle

EmptyCatch ==
    /\ pc = "catch_call"
    /\ ret' = check_empty_catch_blocks(RuleFile, CatchContent(arg))
    /\ pc' = "catch_return"
    /\ UNCHANGED <<forbidden_strings, roslyn, cs_files, fidx, all_issues, checked, errors, warnings, success, exit_code, arg>>

NextCatch == EmptyCatch

SpecCatch == InitCatch /\ [][NextCatch]_vars

\* A body with only blank lines and // comments.
BodyIsEmpty(body) ==
    \A k \in 1..Len(body) : Strip(body[k]) = "" \/ StartsWith(Strip(body[k]), "//")

\* C8: a catch block opening on line c whose body up to the closing brace
\* holds only blank lines and // comments gives exactly one BCS003 error at
\* line c; a body with a statement gives no issue.
C8_EmptyCatchReported ==
    pc = "catch_return" =>
        IF BodyIsEmpty(arg.body)
        THEN /\ Len(ret) = 1
             /\ ret[1].code = "BCS003"
             /\ ret[1].severity = "error"
             /\ ret[1].line_number = CatchLineOf(arg)
        ELSE ret = <<>>

(***************************************************************************)
(* utils.py: is_guid_context; string_checks.py: check_magic_numbers        *)
(***************************************************************************)
HexChars == CharsOf("0123456789abcdefABCDEF")

\* [0-9a-fA-F]{n} at index p (1-based)
IsHexRun(s, p, n) == p + n - 1 <= Len(s) /\ \A k \in p..(p + n - 1) : Char(s, k) \in HexChars

\* The full GUID pattern 8-4-4-4-12 matched at index p.
FullGuidAt(s, p) ==
    /\ IsHexRun(s, p, 8) /\ Char(s, p + 8) = "-"
    /\ IsHexRun(s, p + 9, 4) /\ Char(s, p + 13) = "-"
    /\ IsHexRun(s, p + 14, 4) /\ Char(s, p + 18) = "-"
    /\ IsHexRun(s, p + 19, 4) /\ Char(s, p + 23) = "-"
    /\ IsHexRun(s, p + 24, 12)

\* re.search of the full GUID pattern
SearchFullGuid(s) == \E p \in 1..(Len(s) - 35) : FullGuidAt(s, p)

\* re.search of open [0-9a-fA-F-]+ close
SearchDelimitedHex(s, open, close) ==
    \E i \in 1..Len(s), j \in 1..Len(s) :
        /\ i + 1 < j
        /\ Char(s, i) = open
        /\ Char(s, j) = close
        /\ \A k \in (i + 1)..(j - 1) : Char(s, k) \in HexChars \cup {"-"}

\* re.search of any of guid_patterns
SearchGuidPatterns(s) ==
    \/ SearchFullGuid(s)
    \/ SearchDelimitedHex(s, "\"", "\"")
    \/ SearchDelimitedHex(s, "{", "}")

GuidKeywords == {"guid", "Guid", "GUID", "assembly:", "[assembly:", "typelib"}

\* "keyword.lower() in line_lower" for some keyword
HasGuidKeyword(line) == \E keyword \in GuidKeywords : Contains(Lower(line), Lower(keyword))

\* number_start and number_end are 0-based, number_end exclusive (match.start(), match.end()).
is_guid_context(line, number_start, number_end) ==
    LET context_start == Max(0, number_start - 20)
        context_end == Min(Len(line), number_end + 20)
        context == SubSeq(line, context_start + 1, context_end)
    IN SearchGuidPatterns(context) \/ HasGuidKeyword(line)

\* re.finditer(r'\b(\d{3,})\b', line): the matches as <<start, end>>, 0-based,
\* end exclusive, from left to right.
NumberMatches(line) ==
    LET IsDigit(c) == Contains(AsciiDigits, c)
        spans == {p \in (1..Len(line)) \X (1..Len(line)) :
                    /\ p[2] - p[1] + 1 >= 3
                    /\ \A k \in p[1]..p[2] : IsDigit(Char(line, k))
                    /\ (p[1] = 1 \/ ~IsWordChar(Char(line, p[1] - 1)))
                    /\ (p[2] = Len(line) \/ ~IsWordChar(Char(line, p[2] + 1)))}
        starts == SortedSeq({p[1] : p \in spans})
    IN [k \in 1..Len(starts) |->
          <<starts[k] - 1, (CHOOSE p \in spans : p[1] = starts[k])[2]>>]

acceptable_numbers == {0, 1, 2, -1, 100, 1000}

MagicDescription(number) ==
    "Magic number '" \o ToStr(number) \o "' - consider using a named constant"

\* The issues of one line of check_magic_numbers.
MagicLineIssues(file_path, line, line_num) ==
    LET stripped == Strip(line)
        matches == NumberMatches(line)
        Flagged(m) ==
            /\ ToInt(SubSeq(line, m[1] + 1, m[2])) \notin acceptable_numbers
            /\ ~Contains(Lower(line), "const")
            /\ ~is_guid_context(line, m[1], m[2])
        hits == SelectSeq(matches, Flagged)
    IN IF StartsWith(stripped, "//") \/ StartsWith(stripped, "*") THEN <<>>
       ELSE [k \in 1..Len(hits) |->
               Issue(clean_file_path(file_path), line_num, "warning", "BCW012",
                     MagicDescription(ToInt(SubSeq(line, hits[k][1] + 1, hits[k][2]))))]

check_magic_numbers(file_path, content) ==
    LET lines == Split(content, "\n")
    IN Flatten([n \in 1..Len(lines) |-> MagicLineIssues(file_path, lines[n], n)])

(***************************************************************************)
(* check_magic_numbers applied to one line of code holding a number        *)
(***************************************************************************)
NumberPrefixes ==
    {"x = ", "const int x = ", "// x = ", "int[] a = {", "Id = \"", "new Guid(\""}

NumberLiterals == {"99", "100", "101", "1000", "1001", "12345678"}

NumberSuffixes == {";", "};", "-1234-1234-1234-12345678ab12\";"}

MagicInputs ==
    {[lead |-> l, prefix |-> p, number |-> n, suffix |-> x] :
        l \in 0..MaxLead, p \in NumberPrefixes, n \in NumberLiterals, x \in NumberSuffixes}

\* The line of code of an input.
MagicLine(a) == a.prefix \o a.number \o a.suffix

\* The file of an input: the blank lines, then the line of code.
MagicContent(a) == Join(Blank(a.lead) \o <<MagicLine(a)>>, "\n")

InitMagic ==
    /\ pc = "magic_call"
    /\ arg \in MagicInputs
    /\ ret = Idle
    /\ OrchestratorIdle

MagicNumbers ==
    /\ pc = "magic_call"
    /\ ret' = check_magic_numbers(RuleFile, MagicContent(arg))
    /\ pc' = "magic_return"
    /\ UNCHANGED <<forbidden_strings, roslyn, cs_files, fidx, all_issues, checked, errors, warnings, success, exit_code, arg>>

NextMagic == MagicNumbers

SpecMagic == InitMagic /\ [][NextMagic]_vars

\* A comment line, as the rule takes it.
IsCommentLine(line) == StartsWith(Strip(line), "//") \/ StartsWith(Strip(line), "*")

\* A const line: the line holds "const" in any case.
IsConstLine(line) == Contains(Lower(line), "const")

\* GUID/assembly context, read in the rule's favour: the line holds a GUID, a
\* quoted or braced run of hex digits and dashes, or a GUID/assembly keyword.
IsGuidLine(line) == SearchGuidPatterns(line) \/ HasGuidKeyword(line)

\* The BCW012 warnings of ret that name the number n at line ln.
WarningsNaming(issues, n, ln) ==
    {k \in 1..Len(issues) :
        /\ issues[k].code = "BCW012"
        /\ issues[k].severity = "warning"
        /\ issues[k].line_number = ln
        /\ issues[k].description = MagicDescription(n)}

\* C9: on a line that is not a comment line, an integer literal gives exactly
\* one BCW012 warning naming its value if and only if it has three or more
\* digits, its value is not in {0, 1, 2, -1, 100, 1000}, the line is not a
\* const line and the line is not GUID/assembly context; otherwise none.
C9_MagicNumberLaw ==
    (pc = "magic_return" /\ ~IsCommentLine(MagicLine(arg))) =>
        LET flagged == /\ Len(arg.number) >= 3
                       /\ ToInt(arg.number) \notin acceptable_numbers
                       /\ ~IsConstLine(MagicLine(arg))
                       /\ ~IsGuidLine(MagicLine(arg))
        IN Cardinality(WarningsNaming(ret, ToInt(arg.number), arg.lead + 1)) =
               (IF flagged THEN 1 ELSE 0)

(***************************************************************************)
(* harmony_checks.py: HarmonyChecker.check_harmony_patch_class_declaration *)
(* Indices i and j are 0-based as in the code; lines[i] is lines[i + 1].   *)
(***************************************************************************)
ClassIssueLineOfAttribute(i, j) == i + 1

\* declaration_line_num
ClassIssueLine(i, j) == j + 1

\* "Determine what's missing"
MissingModifiers(has_internal, has_static) ==
    IF ~has_internal /\ ~has_static THEN "internal static"
    ELSE IF ~has_internal THEN "internal"
    ELSE "static"

ClassDescription(class_name, missing) ==
    "Class '" \o class_name \o "' with [HarmonyPatch] attribute must be declared as '"
    \o missing \o "' (currently missing: " \o missing \o ")"

\* The issues of the class declaration next_line found at index j by the
\* look-ahead of the attribute at index i.
ClassDeclarationIssues(file_path, next_line, i, j) ==
    LET class_decl == _remove_generic_params(next_line)
        has_internal == _find_word_in_line(class_decl, "internal")
        has_static == _find_word_in_line(class_decl, "static")
        extracted == _extract_class_name(class_decl)
        class_name == IF extracted.some THEN extracted.value ELSE "unknown"
    IN IF ~(has_internal /\ has_static)
       THEN <<Issue(clean_file_path(file_path), ClassIssueLine(i, j), "error", "BCS050",
                    ClassDescription(class_name, MissingModifiers(has_internal, has_static)))>>
       ELSE <<>>

AccessModifiers == {"public", "private", "protected", "internal", "static"}

OtherDeclarationKeywords == {"struct ", "interface ", "enum ", "delegate "}

\* The look-ahead loop from index j for the attribute at index i: where it
\* stopped, whether a declaration was found, and the BCS050 issues.
RECURSIVE PatchClassLookAhead(_, _, _, _)
PatchClassLookAhead(file_path, lines, i, j) ==
    IF j >= Len(lines) THEN [j |-> j, declaration_found |-> FALSE, issues |-> <<>>]
    ELSE LET next_line == Strip(lines[j + 1])
         IN IF \/ next_line = ""
               \/ StartsWith(next_line, "//")
               \/ StartsWith(next_line, "*")
               \/ StartsWith(next_line, "[")
               \/ _is_preprocessor_directive(next_line)
            THEN PatchClassLookAhead(file_path, lines, i, j + 1)
            ELSE IF Contains(next_line, "class ")
            THEN [j |-> j, declaration_found |-> TRUE,
                  issues |-> ClassDeclarationIssues(file_path, next_line, i, j)]
            ELSE IF Contains(next_line, "(") /\ \E mod \in AccessModifiers : _find_word_in_line(next_line, mod)
            THEN [j |-> j, declaration_found |-> TRUE, issues |-> <<>>]
            ELSE IF \E keyword \in OtherDeclarationKeywords : Contains(next_line, keyword)
            THEN [j |-> j, declaration_found |-> TRUE, issues |-> <<>>]
            ELSE PatchClassLookAhead(file_path, lines, i, j + 1)

\* The outer loop from index i with the issues found so far.
RECURSIVE PatchClassScan(_, _, _, _)
PatchClassScan(file_path, lines, i, issues) ==
    IF i >= Len(lines) THEN issues
    ELSE LET line == Strip(lines[i + 1])
             attr_name == _is_attribute_line(line)
             ahead == PatchClassLookAhead(file_path, lines, i, i + 1)
             malformed == IF ~ahead.declaration_found
                          THEN <<Issue(clean_file_path(file_path), i + 1, "error", "BCS051",
                                       "[HarmonyPatch] attribute found but no recognizable declaration follows")>>
                          ELSE <<>>
         IN IF line = "" \/ StartsWith(line, "//") \/ StartsWith(line, "*")
            THEN PatchClassScan(file_path, lines, i + 1, issues)
            ELSE IF attr_name = Some("HarmonyPatch")
            THEN PatchClassScan(file_path, lines, ahead.j, issues \o ahead.issues \o malformed)
            ELSE PatchClassScan(file_path, lines, i + 1, issues)

check_harmony_patch_class_declaration(file_path, content) ==
    PatchClassScan(file_path, Split(content, "\n"), 0, <<>>)

(***************************************************************************)
(* check_harmony_patch_class_declaration applied to a [HarmonyPatch]       *)
(* attribute, skipped lines and a class declaration                        *)
(***************************************************************************)
MaxSkip == 1         \* skipped lines between the attribute and the class

PatchAttributes == {"[HarmonyPatch]", "[HarmonyPatch(typeof(Foo))]"}

SkippedLines == {"", "// patch", "[Serializable]", "#if DEBUG"}

Indents == {"", "    "}

ModifierLists ==
    {<<>>, <<"public">>, <<"internal">>, <<"static">>, <<"public", "static">>,
     <<"internal", "static">>, <<"static", "internal">>, <<"internal", "sealed">>}

ClassNames == {"Foo", "StaticHelper", "nonstatic"}

ClassTails == {"", "<T>", " : Base<T>"}

PatchClassInputs ==
    {[attr |-> a, skipped |-> k, indent |-> d, mods |-> m, name |-> n, tail |-> t] :
        a \in PatchAttributes, k \in Seqs(SkippedLines, MaxSkip), d \in Indents,
        m \in ModifierLists, n \in ClassNames, t \in ClassTails}

\* The class declaration line of an input.
ClassLineText(a) ==
    a.indent \o Join(a.mods \o <<"class">>, " ") \o " " \o a.name \o a.tail

\* The file of an input.
PatchClassContent(a) ==
    Join(<<"using HarmonyLib;", "", a.attr>> \o a.skipped \o <<ClassLineText(a), "{", "}">>, "\n")

\* The 1-based line of the attribute and of the class declaration.
AttributeLineOf(a) == 3

ClassLineOf(a) == 3 + Len(a.skipped) + 1

InitPatchClass ==
    /\ pc = "patch_class_call"
    /\ arg \in PatchClassInputs
    /\ ret = Idle
    /\ OrchestratorIdle

PatchClass ==
    /\ pc = "patch_class_call"
    /\ ret' = check_harmony_patch_class_declaration(RuleFile, PatchClassContent(arg))
    /\ pc' = "patch_class_return"
    /\ UNCHANGED <<forbidden_strings, roslyn, cs_files, fidx, all_issues, checked, errors, warnings, success, exit_code, arg>>

NextPatchClass == PatchClass

SpecPatchClass == InitPatchClass /\ [][NextPatchClass]_vars

\* The modifiers a declaration lacks, from its list of modifiers.
LackedModifiers(mods) ==
    Join(SelectSeq(<<"internal", "static">>, LAMBDA w : w \notin Range(mods)), " ")

\* C10: a class declaration that follows a [HarmonyPatch] attribute line gets
\* exactly one BCS050 error, at the line of the class declaration and not of
\* the attribute, if and only if it lacks the word internal or the word
\* static; the description names the class and exactly the lacked modifiers;
\* a class declared internal static gets no issue.
C10_PatchClassLaw ==
    pc = "patch_class_return" =>
        IF LackedModifiers(arg.mods) = ""
        THEN ret = <<>>
        ELSE ret = <<Issue(clean_file_path(RuleFile), ClassLineOf(arg), "error", "BCS050",
                           ClassDescription(arg.name, LackedModifiers(arg.mods)))>>

\* C10 witness: a public class under a [HarmonyPatch] attribute, with a line
\* skipped in between, has been reported once, at its own line, as lacking
\* "internal static".
C10_Witness ==
    /\ pc = "patch_class_return"
    /\ arg.mods = <<"public">>
    /\ Len(arg.skipped) = 1
    /\ Len(ret) = 1
    /\ ret[1].code = "BCS050"
    /\ ret[1].line_number = ClassLineOf(arg)
    /\ ret[1].line_number # AttributeLineOf(arg)
    /\ Contains(ret[1].description, "(currently missing: internal static)")

(***************************************************************************)
(* harmony_checks.py: _extract_method_name,                                *)
(* _check_transpiler_method_calls_simple and                               *)
(* check_harmony_patch_method_declaration.  Indices are 0-based as in the  *)
(* code; lines[i] is lines[i + 1].                                         *)
(***************************************************************************)
\* str.endswith
EndsWith(s, p) == Len(s) >= Len(p) /\ SubSeq(s, Len(s) - Len(p) + 1, Len(s)) = p

\* str.split(): the maximal runs of non-whitespace characters, in order.
RECURSIVE SplitWhitespaceFrom(_, _, _, _)
SplitWhitespaceFrom(s, i, current, words) ==
    IF i > Len(s)
    THEN IF current # "" THEN Append(words, current) ELSE words
    ELSE IF Char(s, i) \in Whitespace
         THEN SplitWhitespaceFrom(s, i + 1, "", IF current # "" THEN Append(words, current) ELSE words)
         ELSE SplitWhitespaceFrom(s, i + 1, current \o Char(s, i), words)

SplitWhitespace(s) == SplitWhitespaceFrom(s, 1, "", <<>>)

\* "while k >= 0 and line[k] in [' ', '\t']: k -= 1", k 1-based, 0 when exhausted.
RECURSIVE SkipBlanksBack(_, _)
SkipBlanksBack(s, k) ==
    IF k >= 1 /\ Char(s, k) \in {" ", "\t"} THEN SkipBlanksBack(s, k - 1) ELSE k

\* The word characters that end at index k (1-based), collected backwards.
RECURSIVE WordBack(_, _, _)
WordBack(s, k, name) ==
    IF k >= 1 /\ IsWordChar(Char(s, k)) THEN WordBack(s, k - 1, Char(s, k) \o name) ELSE name

\* The identifier in front of the parenthesis at index paren (1-based), "" for none.
NameBeforeParen(s, paren) == WordBack(s, SkipBlanksBack(s, paren - 1), "")

_extract_method_name(declaration) ==
    LET paren_index == Find(declaration, "(")
    IN IF paren_index = 0 THEN None
       ELSE NonEmptyOrNone(NameBeforeParen(declaration, paren_index))

\* The end of the method that starts at index method_start: the first later
\* line at which the brace count is back to zero, len(lines) for none.
RECURSIVE TranspilerMethodEnd(_, _, _, _)
TranspilerMethodEnd(lines, method_start, i, brace_count) ==
    IF i >= Len(lines) THEN Len(lines)
    ELSE LET line == Strip(lines[i + 1])
             count == brace_count + Count(line, "{") - Count(line, "}")
         IN IF line = "" \/ StartsWith(line, "//")
            THEN TranspilerMethodEnd(lines, method_start, i + 1, brace_count)
            ELSE IF count = 0 /\ i > method_start THEN i
            ELSE TranspilerMethodEnd(lines, method_start, i + 1, count)

VisibilityWords == <<"public", "private", "protected", "internal">>

\* The entry method_visibility gets from one line, as a sequence of zero or one.
VisibilityEntry(line) ==
    LET line_before_paren == Split(line, "(")[1]
        words == SelectSeq(SplitWhitespace(line_before_paren), LAMBDA w : w \in Range(VisibilityWords))
        method_name == _extract_method_name(line)
    IN IF ~Contains(line, "(") \/ words = <<>> \/ ~method_name.some THEN <<>>
       ELSE <<[name |-> method_name.value,
               is_private |-> words[1] = "private",
               is_public |-> words[1] = "public",
               is_static |-> Contains(line_before_paren, "static")]>>

\* method_visibility as the list of its assignments, in line order.
MethodVisibility(all_lines) == Flatten([n \in 1..Len(all_lines) |-> VisibilityEntry(all_lines[n])])

\* "called_method in method_visibility"
IsDeclared(visibility, name) == \E k \in 1..Len(visibility) : visibility[k].name = name

\* method_visibility[called_method]: the last assignment wins.
VisibilityOf(visibility, name) ==
    visibility[SetMax({k \in 1..Len(visibility) : visibility[k].name = name})]

\* The BCS053 issues of the stripped line at index i.
TranspilerLineIssues(file_path, line, i, transpiler_name, visibility) ==
    LET parens == SortedSeq({j \in 1..Len(line) : Char(line, j) = "("})
        Flagged(j) ==
            LET called_method == NameBeforeParen(line, j)
            IN /\ called_method # ""
               /\ IsDeclared(visibility, called_method)
               /\ ~(VisibilityOf(visibility, called_method).is_public /\ VisibilityOf(visibility, called_method).is_static)
               /\ ~VisibilityOf(visibility, called_method).is_private
        hits == SelectSeq(parens, Flagged)
    IN IF line = "" \/ StartsWith(line, "//") THEN <<>>
       ELSE [k \in 1..Len(hits) |->
               Issue(clean_file_path(file_path), i + 1, "error", "BCS053",
                     "Transpiler method '" \o transpiler_name \o "' calls method '"
                     \o NameBeforeParen(line, hits[k])
                     \o "' which should be private (utility methods can be public static)")]

_check_transpiler_method_calls_simple(lines, method_start, transpiler_name, file_path, content) ==
    LET method_end == TranspilerMethodEnd(lines, method_start, method_start, 0)
        visibility == MethodVisibility(Split(content, "\n"))
    IN Flatten([n \in 1..(method_end - method_start) |->
                  TranspilerLineIssues(file_path, Strip(lines[method_start + n]), method_start + n - 1,
                                       transpiler_name, visibility)])

harmony_method_attributes == <<"HarmonyPrefix", "HarmonyPostfix", "HarmonyTranspiler", "HarmonyFinalizer">>

\* The loop collecting the Harmony attributes that follow the first one: the
\* index k it stops at, all_attributes and is_transpiler.
RECURSIVE CollectAttributes(_, _, _, _)
CollectAttributes(lines, k, all_attributes, is_transpiler) ==
    IF k >= Len(lines) THEN [k |-> k, all_attributes |-> all_attributes, is_transpiler |-> is_transpiler]
    ELSE LET next_attr_line == Strip(lines[k + 1])
             next_attr == _is_attribute_line(next_attr_line)
         IN IF \/ next_attr_line = ""
               \/ StartsWith(next_attr_line, "//")
               \/ StartsWith(next_attr_line, "*")
               \/ _is_preprocessor_directive(next_attr_line)
            THEN CollectAttributes(lines, k + 1, all_attributes, is_transpiler)
            ELSE IF next_attr.some /\ (next_attr.value \in Range(harmony_method_attributes) \cup {"HarmonyPatch", "HarmonyDebug"})
            THEN CollectAttributes(lines, k + 1, Append(all_attributes, next_attr.value),
                                   is_transpiler \/ Contains(next_attr.value, "Transpiler"))
            ELSE [k |-> k, all_attributes |-> all_attributes, is_transpiler |-> is_transpiler]

PatchMethodIssueLineOfAttribute(i, declaration_start_line) == i + 1

\* method_line_num
PatchMethodIssueLine(i, declaration_start_line) == declaration_start_line + 1

\* What the look-ahead does with a complete signature ending at index j.
PatchMethodDeclaration(file_path, content, lines, i, j, attrs, declaration_start_line, decl_lines) ==
    LET full_declaration == Join(decl_lines, " ")
        has_parentheses == Contains(full_declaration, "(")
        has_modifier == \E mod \in AccessModifiers : _find_word_in_line(full_declaration, mod)
        extracted == _extract_method_name(full_declaration)
        method_name == IF extracted.some THEN extracted.value ELSE "unknown"
        has_private == _find_word_in_line(full_declaration, "private")
    IN IF has_parentheses /\ has_modifier
       THEN [j |-> j, method_found |-> TRUE,
             issues |->
               IF ~has_private
               THEN <<Issue(clean_file_path(file_path), PatchMethodIssueLine(i, declaration_start_line),
                            "error", "BCS052",
                            "Method '" \o method_name \o "' with [" \o Join(attrs.all_attributes, ", ")
                            \o "] attribute(s) must be private")>>
               ELSE IF attrs.is_transpiler
               THEN _check_transpiler_method_calls_simple(lines, j, method_name, file_path, content)
               ELSE <<>>]
       ELSE [j |-> j, method_found |-> FALSE, issues |-> <<>>]

\* The look-ahead loop for the method declaration, from index j.
RECURSIVE PatchMethodLookAhead(_, _, _, _, _, _, _, _)
PatchMethodLookAhead(file_path, content, lines, i, j, attrs, declaration_start_line, decl_lines) ==
    IF j >= Len(lines) THEN [j |-> j, method_found |-> FALSE, issues |-> <<>>]
    ELSE LET next_line == Strip(lines[j + 1])
             start == IF declaration_start_line = -1 THEN j ELSE declaration_start_line
             collected == Append(decl_lines, next_line)
         IN IF \/ next_line = ""
               \/ StartsWith(next_line, "//")
               \/ StartsWith(next_line, "*")
               \/ StartsWith(next_line, "[")
               \/ _is_preprocessor_directive(next_line)
            THEN PatchMethodLookAhead(file_path, content, lines, i, j + 1, attrs, declaration_start_line, decl_lines)
            ELSE IF Contains(next_line, "{") \/ Contains(next_line, "=>") \/ EndsWith(next_line, ";")
            THEN PatchMethodDeclaration(file_path, content, lines, i, j, attrs, start, collected)
            ELSE PatchMethodLookAhead(file_path, content, lines, i, j + 1, attrs, start, collected)

\* The outer loop from index i with the issues found so far.
RECURSIVE PatchMethodScan(_, _, _, _, _)
PatchMethodScan(file_path, content, lines, i, issues) ==
    IF i >= Len(lines) THEN issues
    ELSE LET line == Strip(lines[i + 1])
             attr_name == _is_attribute_line(line)
             attrs == CollectAttributes(lines, i + 1, <<attr_name.value>>, Contains(attr_name.value, "Transpiler"))
             ahead == PatchMethodLookAhead(file_path, content, lines, i, attrs.k, attrs, -1, <<>>)
             orphan == IF ~ahead.method_found
                       THEN <<Issue(clean_file_path(file_path), i + 1, "error", "BCS054",
                                    "[" \o Join(attrs.all_attributes, ", ")
                                    \o "] attribute(s) found but no method declaration follows")>>
                       ELSE <<>>
         IN IF line = "" \/ StartsWith(line, "//") \/ StartsWith(line, "*")
            THEN PatchMethodScan(file_path, content, lines, i + 1, issues)
            ELSE IF attr_name.some /\ attr_name.value \in Range(harmony_method_attributes)
            THEN PatchMethodScan(file_path, content, lines, ahead.j, issues \o ahead.issues \o orphan)
            ELSE PatchMethodScan(file_path, content, lines, i + 1, issues)

check_harmony_patch_method_declaration(file_path, content) ==
    PatchMethodScan(file_path, content, Split(content, "\n"), 0, <<>>)

(***************************************************************************)
(* check_harmony_patch_method_declaration applied to a patch-role          *)
(* attribute, skipped lines and a method declaration in a class            *)
(***************************************************************************)
MethodSkippedLines == SkippedLines \cup {"[HarmonyPatch(typeof(Foo))]"}

MethodModifierLists ==
    {<<>>, <<"static">>, <<"public", "static">>, <<"private", "static">>,
     <<"static", "private">>, <<"internal", "static">>, <<"private">>, <<"protected">>}

MethodNames == {"Prefix", "Bar", "privatePostfix"}

\* How the declaration is laid out: body on the same line, brace on the next
\* line, parameters on a line of their own, expression body.
MethodLayouts == {"same", "allman", "spread", "arrow"}

PatchMethodInputs ==
    {[role |-> r, skipped |-> k, mods |-> m, name |-> n, layout |-> l] :
        r \in Range(harmony_method_attributes), k \in Seqs(MethodSkippedLines, MaxSkip),
        m \in MethodModifierLists, n \in MethodNames, l \in MethodLayouts}

\* The lines of the method declaration of an input, with its body.
MethodLines(a) ==
    LET head == "    " \o Join(a.mods \o <<"void", a.name>>, " ")
    IN CASE a.layout = "same" -> <<head \o "(int x) { }">>
         [] a.layout = "allman" -> <<head \o "(int x)", "    {", "    }">>
         [] a.layout = "spread" -> <<head \o "(", "        int x)", "    {", "    }">>
         [] a.layout = "arrow" -> <<head \o "(int x) => Log(x);">>

\* The file of an input.
PatchMethodContent(a) ==
    Join(<<"class P", "{", "    [" \o a.role \o "]">> \o a.skipped \o MethodLines(a) \o <<"}">>, "\n")

\* The 1-based line at which the declaration of an input starts.
MethodLineOf(a) == 3 + Len(a.skipped) + 1

InitPatchMethod ==
    /\ pc = "patch_method_call"
    /\ arg \in PatchMethodInputs
    /\ ret = Idle
    /\ OrchestratorIdle

PatchMethod ==
    /\ pc = "patch_method_call"
    /\ ret' = check_harmony_patch_method_declaration(RuleFile, PatchMethodContent(arg))
    /\ pc' = "patch_method_return"
    /\ UNCHANGED <<forbidden_strings, roslyn, cs_files, fidx, all_issues, checked, errors, warnings, success, exit_code, arg>>

NextPatchMethod == PatchMethod

SpecPatchMethod == InitPatchMethod /\ [][NextPatchMethod]_vars

\* The issues of a list that carry the given code.
WithCode(issues, code) == SelectSeq(issues, LAMBDA i : i.code = code)

\* C11: a patch-role attribute line followed by a method declaration gets
\* exactly one BCS052 error, at the first line of the declaration and naming
\* the method, if and only if the declaration does not hold the word private;
\* a private patch method gets no BCS052.
C11_PatchMethodLaw ==
    pc = "patch_method_return" =>
        IF "private" \in Range(arg.mods)
        THEN WithCode(ret, "BCS052") = <<>>
        ELSE /\ Len(WithCode(ret, "BCS052")) = 1
             /\ WithCode(ret, "BCS052")[1].severity = "error"
             /\ WithCode(ret, "BCS052")[1].line_number = MethodLineOf(arg)
             /\ Contains(WithCode(ret, "BCS052")[1].description, "Method '" \o arg.name \o "'")

\* The same law for the declarations that carry at least one of the words
\* public, private, protected, internal, static.
PatchMethodLawWithModifier ==
    (pc = "patch_method_return" /\ arg.mods # <<>>) =>
        IF "private" \in Range(arg.mods)
        THEN ret = <<>>
        ELSE /\ Len(ret) = 1
             /\ ret[1].code = "BCS052"
             /\ ret[1].line_number = MethodLineOf(arg)
             /\ Contains(ret[1].description, "Method '" \o arg.name \o "'")

\* A declaration without any of those words is answered with BCS054 at the
\* line of the attribute.
PatchMethodWithoutModifier ==
    (pc = "patch_method_return" /\ arg.mods = <<>>) =>
        /\ Len(ret) = 1
        /\ ret[1].code = "BCS054"
        /\ ret[1].line_number = 3

(***************************************************************************)
(* roslyn_analyzer.py: check_harmony_patch_methods and                     *)
(* _check_transpiler_method_calls.  The syntax tree is given by its method *)
(* declarations in document order: name, modifiers, attribute names, the   *)
(* line of the identifier and the invocations of the body (simple name of  *)
(* the callee and line).                                                   *)
(***************************************************************************)
MethodNode(name, modifiers, attributes, line, invocations) ==
    [name |-> name, modifiers |-> modifiers, attributes |-> attributes, line |-> line,
     invocations |-> invocations]

\* [mod.ValueText.lower() for mod in method.Modifiers]
LowerAll(words) == [k \in 1..Len(words) |-> Lower(words[k])]

\* str(list) of a list of strings
ListRepr(words) == "[" \o Join([k \in 1..Len(words) |-> "'" \o words[k] \o "'"], ", ") \o "]"

HarmonyMarkers == {"harmonypatch", "harmonyprefix", "harmonypostfix", "harmonytranspiler", "harmonyfinalizer"}

\* method_visibility_map[name]: the last declaration of the name wins.
RoslynVisibilityOf(methods, name) ==
    LET method == methods[SetMax({k \in 1..Len(methods) : methods[k].name = name})]
    IN [is_private |-> "private" \in Range(LowerAll(method.modifiers)),
        is_public |-> "public" \in Range(LowerAll(method.modifiers)),
        is_static |-> "static" \in Range(LowerAll(method.modifiers))]

_check_transpiler_method_calls(transpiler_method, file_path, methods) ==
    LET Flagged(invocation) ==
            /\ \E k \in 1..Len(methods) : methods[k].name = invocation.name
            /\ ~(RoslynVisibilityOf(methods, invocation.name).is_public /\ RoslynVisibilityOf(methods, invocation.name).is_static)
            /\ ~RoslynVisibilityOf(methods, invocation.name).is_private
        hits == SelectSeq(transpiler_method.invocations, Flagged)
    IN [k \in 1..Len(hits) |->
          Issue(file_path, hits[k].line, "error", "BCS053",
                "Transpiler method '" \o transpiler_method.name \o "' calls method '" \o hits[k].name
                \o "' which should be private (utility methods can be public static)")]

\* The issues of one method declaration of check_harmony_patch_methods.
RoslynPatchMethodIssues(file_path, method_decl, methods) ==
    LET harmony_attrs == SelectSeq(method_decl.attributes,
                                   LAMBDA a : \E h \in HarmonyMarkers : Contains(Lower(a), h))
        is_transpiler == \E k \in 1..Len(harmony_attrs) : Contains(Lower(harmony_attrs[k]), "transpiler")
        is_private == "private" \in Range(LowerAll(method_decl.modifiers))
    IN IF harmony_attrs = <<>> THEN <<>>
       ELSE (IF ~is_private
             THEN <<Issue(file_path, method_decl.line, "error", "BCS052",
                          "Method '" \o method_decl.name \o "' with Harmony attributes "
                          \o ListRepr(harmony_attrs) \o " must be private")>>
             ELSE <<>>)
            \o (IF is_transpiler /\ is_private
                THEN _check_transpiler_method_calls(method_decl, file_path, methods)
                ELSE <<>>)

check_harmony_patch_methods(file_path, methods) ==
    Flatten([k \in 1..Len(methods) |-> RoslynPatchMethodIssues(file_path, methods[k], methods)])

(***************************************************************************)
(* The transpiler callee check of both analyzers applied to one file: a    *)
(* transpiler whose body calls methods, and a helper declared in the file  *)
(***************************************************************************)
MaxCalls == 2        \* calls in the body of the transpiler

TranspilerModifierLists == {<<"private", "static">>, <<"public", "static">>, <<"static">>}

CalleeModifierLists ==
    {<<"private", "static">>, <<"private">>, <<"public", "static">>, <<"public">>,
     <<"internal", "static">>, <<"protected">>, <<"static">>, <<>>}

\* A call: the expression in front of the parenthesis and the simple name of
\* the callee.  Helper is declared in the file, Other is not.
CallForms ==
    {[text |-> "Helper", name |-> "Helper"],
     [text |-> "P.Helper", name |-> "Helper"],
     [text |-> "Other", name |-> "Other"]}

TranspilerInputs ==
    {[tmods |-> t, cmods |-> c, calls |-> b] :
        t \in TranspilerModifierLists, c \in CalleeModifierLists, b \in Seqs(CallForms, MaxCalls)}

\* The 1-based line of the k-th call of the body.
CallLineOf(k) == 5 + k

\* The file of an input, as text.
TranspilerContent(a) ==
    Join(<<"class P", "{", "    [HarmonyTranspiler]",
           "    " \o Join(a.tmods \o <<"object", "Transpiler(object ins)">>, " "),
           "    {">>
         \o [k \in 1..Len(a.calls) |-> "        " \o a.calls[k].text \o "(ins);"]
         \o <<"    }", "",
              "    " \o Join(a.cmods \o <<"object", "Helper(object ins)">>, " "),
              "    {", "        return ins;", "    }", "}">>,
         "\n")

\* The file of an input, as its syntax tree.
TranspilerTree(a) ==
    <<MethodNode("Transpiler", a.tmods, <<"HarmonyTranspiler">>, 4,
                 [k \in 1..Len(a.calls) |-> [name |-> a.calls[k].name, line |-> CallLineOf(k)]]),
      MethodNode("Helper", a.cmods, <<>>, 5 + Len(a.calls) + 3, <<>>)>>

InitTranspiler ==
    /\ pc = "transpiler_call"
    /\ arg \in TranspilerInputs
    /\ ret = Idle
    /\ OrchestratorIdle

\* Both analyzers are applied to the file.
TranspilerCalls ==
    /\ pc = "transpiler_call"
    /\ ret' = [string |-> check_harmony_patch_method_declaration(RuleFile, TranspilerContent(arg)),
               structural |-> check_harmony_patch_methods(RuleFile, TranspilerTree(arg))]
    /\ pc' = "transpiler_return"
    /\ UNCHANGED <<forbidden_strings, roslyn, cs_files, fidx, all_issues, checked, errors, warnings, success, exit_code, arg>>

NextTranspiler == TranspilerCalls

SpecTranspiler == InitTranspiler /\ [][NextTranspiler]_vars

\* The BCS053 issues the claim expects: one per call of a declared callee that
\* is neither private nor public static, when the transpiler is private.
ExpectedCalleeIssues(a) ==
    LET flagged == /\ "private" \in Range(a.tmods)
                   /\ "private" \notin Range(a.cmods)
                   /\ ~("public" \in Range(a.cmods) /\ "static" \in Range(a.cmods))
    IN SelectSeq([k \in 1..Len(a.calls) |-> <<CallLineOf(k), a.calls[k].name>>],
                 LAMBDA c : flagged /\ c[2] = "Helper")

\* The BCS053 issues of a result, as <<line, callee>>.
CalleeIssues(issues) ==
    LET found == WithCode(issues, "BCS053")
    IN [k \in 1..Len(found) |->
          <<found[k].line_number,
            IF Contains(found[k].description, "calls method 'Helper'") THEN "Helper" ELSE "Other">>]

\* C12: in a private transpiler every call of a method declared in the file is
\* flagged with one BCS053 at the line of the call, citing the callee, if and
\* only if the callee is neither private nor public static; other calls are
\* never flagged and a non-private transpiler gets no callee check; in string
\* mode and in structural mode.
C12_CalleeLaw ==
    pc = "transpiler_return" =>
        /\ CalleeIssues(ret.string) = ExpectedCalleeIssues(arg)
        /\ CalleeIssues(ret.structural) = ExpectedCalleeIssues(arg)

\* The structural analyzer alone follows the law.
CalleeLawStructural ==
    pc = "transpiler_return" => CalleeIssues(ret.structural) = ExpectedCalleeIssues(arg)

\* The string analyzer follows it for callees that carry a visibility word.
CalleeLawStringWithVisibility ==
    (pc = "transpiler_return" /\ Range(arg.cmods) \cap Range(VisibilityWords) # {}) =>
        CalleeIssues(ret.string) = ExpectedCalleeIssues(arg)

(***************************************************************************)
(* string_checks.py: StringBasedChecker.check_todo_comments                *)
(***************************************************************************)
\* str.split(sep, 1)[1]: the text after the first occurrence of sep.
AfterFirst(s, sep) == SubSeq(s, Find(s, sep) + Len(sep), Len(s))

\* str.split(sep, 1)[0]: the text before the first occurrence of sep.
BeforeFirst(s, sep) == SubSeq(s, 1, Find(s, sep) - 1)

\* str.lstrip() of whitespace
StripLeft(s) ==
    LET keep == {i \in 1..Len(s) : Char(s, i) \notin Whitespace}
    IN IF keep = {} THEN "" ELSE SubSeq(s, SetMin(keep), Len(s))

\* "Remove common comment prefixes"
CommentText(line) ==
    LET comment_text == Strip(line)
        after_block == Strip(AfterFirst(comment_text, "/*"))
    IN IF Contains(comment_text, "//") THEN Strip(AfterFirst(comment_text, "//"))
       ELSE IF Contains(comment_text, "/*")
            THEN IF Contains(after_block, "*/") THEN Strip(BeforeFirst(after_block, "*/"))
                 ELSE after_block
       ELSE comment_text

KeepTodoPrefix(comment_text) == comment_text

\* re.sub(r'^todo\s*:?\s*', '', comment_text, flags=re.IGNORECASE) for a text
\* that starts with "todo" in any case.
RemoveTodoPrefix(comment_text) ==
    LET after_todo == StripLeft(SubSeq(comment_text, 5, Len(comment_text)))
    IN IF StartsWith(after_todo, ":")
       THEN StripLeft(SubSeq(after_todo, 2, Len(after_todo)))
       ELSE after_todo

\* The description of the BCW013 issue of a comment text.
TodoDescription(comment_text) ==
    LET comment_without_todo == RemoveTodoPrefix(comment_text)
    IN IF StartsWith(Lower(comment_text), "todo")
       THEN IF Len(comment_without_todo) > 97
            THEN "TODO: " \o SubSeq(comment_without_todo, 1, 97) \o "..."
            ELSE "TODO: " \o comment_without_todo
       ELSE IF Len(comment_text) > 94
            THEN "TODO: " \o SubSeq(comment_text, 1, 94) \o "..."
            ELSE "TODO: " \o comment_text

\* The issues of one line of check_todo_comments.
TodoLineIssues(file_path, line, line_num) ==
    IF Contains(Lower(Strip(line)), "todo") /\ (Contains(line, "//") \/ Contains(line, "/*"))
    THEN <<Issue(clean_file_path(file_path), line_num, "warning", "BCW013",
                 TodoDescription(CommentText(line)))>>
    ELSE <<>>

check_todo_comments(file_path, content) ==
    LET lines == Split(content, "\n")
    IN Flatten([n \in 1..Len(lines) |-> TodoLineIssues(file_path, lines[n], n)])

(***************************************************************************)
(* check_todo_comments applied to one comment line                         *)
(***************************************************************************)
MaxTextLen == 100    \* characters of the longest comment text

\* A text of n characters without blanks.
Filler(n) == SubSeq(Repeat("abcdefghij", (n \div 10) + 1), 1, n)

TodoCode == {"", "x = 1; "}

TodoOpeners == {"// ", "//", "/* "}

TodoPrefixes == {"", "TODO: ", "todo ", "Todo:", "TODO :"}

TodoTexts ==
    {"fix this later", "already prefixed", "remember the todo list"}
    \cup {Filler(n) : n \in 90..MaxTextLen}

TodoInputs ==
    {[code |-> c, opener |-> o, prefix |-> p, text |-> t] :
        c \in TodoCode, o \in TodoOpeners, p \in TodoPrefixes, t \in TodoTexts}

\* The line of an input.
TodoLine(a) ==
    a.code \o a.opener \o a.prefix \o a.text \o (IF a.opener = "/* " THEN " */" ELSE "")

InitTodo ==
    /\ pc = "todo_call"
    /\ arg \in TodoInputs
    /\ ret = Idle
    /\ OrchestratorIdle

TodoComments ==
    /\ pc = "todo_call"
    /\ ret' = check_todo_comments(RuleFile, TodoLine(arg))
    /\ pc' = "todo_return"
    /\ UNCHANGED <<forbidden_strings, roslyn, cs_files, fidx, all_issues, checked, errors, warnings, success, exit_code, arg>>

NextTodo == TodoComments

SpecTodo == InitTodo /\ [][NextTodo]_vars

C14_TodoLength ==
    pc = "todo_return" =>
        \A k \in 1..Len(ret) : ret[k].code = "BCW013" => Len(ret[k].description) <= 100

(***************************************************************************)
(* reporter.py: cleanup_old_result_files                                   *)
(***************************************************************************)
ResultPrefix == "code_check_results_"

ResultSuffix == ".txt"

\* glob.glob("code_check_results_*.txt") applied to one file name
GlobMatches(name) ==
    /\ Len(name) >= Len(ResultPrefix) + Len(ResultSuffix)
    /\ StartsWith(name, ResultPrefix)
    /\ EndsWith(name, ResultSuffix)

IsDigits(s) == \A i \in 1..Len(s) : Char(s, i) \in CharsOf(AsciiDigits)

\* ^code_check_results_(\d{8}_\d{6})\.txt$ : the captured group, or None
TimestampPattern(name) ==
    LET g == SubSeq(name, Len(ResultPrefix) + 1, Len(name) - Len(ResultSuffix))
    IN IF /\ GlobMatches(name)
          /\ Len(g) = 15
          /\ IsDigits(SubSeq(g, 1, 8))
          /\ Char(g, 9) = "_"
          /\ IsDigits(SubSeq(g, 10, 15))
       THEN Some(g)
       ELSE None

IsLeapYear(y) == (y % 4 = 0 /\ y % 100 # 0) \/ y % 400 = 0

DaysInMonth(y, m) ==
    IF m = 2 THEN (IF IsLeapYear(y) THEN 29 ELSE 28)
    ELSE IF m \in {4, 6, 9, 11} THEN 30 ELSE 31

\* datetime.strptime(g, "%Y%m%d_%H%M%S") for the fifteen characters the
\* pattern captures; valid is FALSE where strptime raises ValueError.
strptime(g) ==
    LET t == [year   |-> ToInt(SubSeq(g, 1, 4)),
              month  |-> ToInt(SubSeq(g, 5, 6)),
              day    |-> ToInt(SubSeq(g, 7, 8)),
              hour   |-> ToInt(SubSeq(g, 10, 11)),
              minute |-> ToInt(SubSeq(g, 12, 13)),
              second |-> ToInt(SubSeq(g, 14, 15))]
    IN [valid |-> /\ t.year >= 1
                  /\ t.month \in 1..12
                  /\ t.day >= 1
                  /\ t.day <= DaysInMonth(t.year, t.month)
                  /\ t.hour <= 23
                  /\ t.minute <= 59
                  /\ t.second <= 59,
        value |-> t]

\* The (file, timestamp) pairs of valid_files
ValidFiles(disk) ==
    {[file |-> f, timestamp |-> strptime(TimestampPattern(f).value).value] :
        f \in {n \in disk : TimestampPattern(n).some /\ strptime(TimestampPattern(n).value).valid}}

\* datetime comparison
TimeKey(t) ==
    <<(t.year * 10000) + (t.month * 100) + t.day,
      (t.hour * 3600) + (t.minute * 60) + t.second>>

Earlier(t1, t2) ==
    \/ TimeKey(t1)[1] < TimeKey(t2)[1]
    \/ TimeKey(t1)[1] = TimeKey(t2)[1] /\ TimeKey(t1)[2] < TimeKey(t2)[2]

\* timestamp.replace(minute=(timestamp.minute // 5) * 5, second=0)
window_key(t) == [t EXCEPT !.minute = (t.minute \div 5) * 5, !.second = 0]

\* sort(key=timestamp, reverse=True) of a set of pairs with distinct timestamps
RECURSIVE SortOldestFirst(_)
SortOldestFirst(files) ==
    IF files = {} THEN <<>>
    ELSE LET m == CHOOSE x \in files : \A y \in files : ~Earlier(y.timestamp, x.timestamp)
         IN <<m>> \o SortOldestFirst(files \ {m})

RECURSIVE SortNewestFirst(_)
SortNewestFirst(files) ==
    IF files = {} THEN <<>>
    ELSE LET m == CHOOSE x \in files : \A y \in files : ~Earlier(x.timestamp, y.timestamp)
         IN <<m>> \o SortNewestFirst(files \ {m})

\* files[:n] and files[n:] for n >= 0
SliceTo(files, n) == SubSeq(files, 1, Min(n, Len(files)))

SliceFromNext(files, n) == SubSeq(files, n + 2, Len(files))

SliceFrom(files, n) == SubSeq(files, n + 1, Len(files))

\* The global maximum of kept files
GlobalLimit == 10

\* cleanup_old_result_files(keep_latest) run on a directory; locked are the
\* files whose os.remove raises OSError.  The result gives the returned
\* count, the directory afterwards and the two lists the method builds.
cleanup_old_result_files(disk, keep_latest, locked) ==
    LET valid_files == ValidFiles(disk)
        window_keys == {window_key(f.timestamp) : f \in valid_files}
        files_in_window(w) == SortNewestFirst({f \in valid_files : window_key(f.timestamp) = w})
        window_keep == UNION {Range(SliceTo(files_in_window(w), keep_latest)) : w \in window_keys}
        window_delete == UNION {IF Len(files_in_window(w)) > keep_latest
                                THEN Range(SliceFrom(files_in_window(w), keep_latest))
                                ELSE {} : w \in window_keys}
        sorted_keep == SortNewestFirst(window_keep)
        over == Len(sorted_keep) > GlobalLimit
        excess_files == IF over THEN Range(SliceFrom(sorted_keep, GlobalLimit)) ELSE {}
        files_to_keep == IF over THEN Range(SliceTo(sorted_keep, GlobalLimit)) ELSE window_keep
        files_to_delete == window_delete \cup excess_files
        removed == {f.file : f \in files_to_delete} \ locked
    IN [deleted_count |-> Cardinality(removed),
        disk |-> disk \ removed,
        files_to_keep |-> {f.file : f \in files_to_keep},
        files_to_delete |-> {f.file : f \in files_to_delete},
        excess_files |-> {f.file : f \in excess_files}]

(***************************************************************************)
(* SpecCleanup: the clean-up run on bounded directories                    *)
(***************************************************************************)
MaxPerWindow == 6

\* The starts of three five-minute windows, two in one hour and one in the next.
WindowStarts == <<[hour |-> 12, minute |-> 0], [hour |-> 12, minute |-> 5], [hour |-> 13, minute |-> 0]>>

TwoDigits(n) == IF n < 10 THEN "0" \o ToStr(n) ELSE ToStr(n)

\* The name write_results gives the file written at the k-th instant
\* (k = 0, 1, ...; thirty seconds apart) of window w.
ResultFile(w, k) ==
    ResultPrefix \o "20260101_" \o TwoDigits(WindowStarts[w].hour)
        \o TwoDigits(WindowStarts[w].minute + (k \div 2)) \o TwoDigits(30 * (k % 2)) \o ResultSuffix

\* Files the glob matches although they carry no valid timestamp, and one
\* file the glob does not match.
RenamedFiles ==
    {"code_check_results_baseline.txt",
     "code_check_results_20261301_120000.txt",
     "code_check_results_20260230_120000.txt",
     "code_check_results_20260101_120060.txt",
     "code_check_results_20260101_1200.txt",
     "notes.txt"}

KeepChoices == {0, 1, 2, 5}

CleanupInputs ==
    [counts : [1..Len(WindowStarts) -> 0..MaxPerWindow],
     keep_latest : KeepChoices,
     renamed : {{}, RenamedFiles},
     locked : BOOLEAN]

CleanupDisk(a) ==
    (UNION {{ResultFile(w, k) : k \in 0..(a.counts[w] - 1)} : w \in 1..Len(WindowStarts)})
        \cup a.renamed

\* os.remove fails for the oldest file of the first window when locked.
CleanupLocked(a) == IF a.locked THEN {ResultFile(1, 0)} ELSE {}

InitCleanup ==
    /\ pc = "cleanup_call"
    /\ arg \in CleanupInputs
    /\ ret = Idle
    /\ OrchestratorIdle

Cleanup ==
    /\ pc = "cleanup_call"
    /\ ret' = cleanup_old_result_files(CleanupDisk(arg), arg.keep_latest, CleanupLocked(arg))
    /\ pc' = "cleanup_return"
    /\ UNCHANGED <<forbidden_strings, roslyn, cs_files, fidx, all_issues, checked, errors, warnings, success, exit_code, arg>>

NextCleanup == Cleanup

SpecCleanup == InitCleanup /\ [][NextCleanup]_vars

\* The valid result files of a directory.
ValidNames(disk) == {f.file : f \in ValidFiles(disk)}

TimeOf(name) == strptime(TimestampPattern(name).value).value

\* C15: after a clean-up with parameter K in which every deletion succeeded,
\* at most K valid result files remain in each five-minute window and at most
\* ten remain in total, no file without a valid timestamp name has been
\* deleted, and the returned count is the number of files removed.
C15_CleanupLimits ==
    pc = "cleanup_return" =>
        LET before == CleanupDisk(arg)
            valid_before == ValidFiles(before)
            valid_after == {f \in valid_before : f.file \in ret.disk}
            every_deletion_succeeded == ret.files_to_delete \cap ret.disk = {}
        IN /\ ret.disk \subseteq before
           /\ ret.deleted_count = Cardinality(before \ ret.disk)
           /\ (before \ {f.file : f \in valid_before}) \subseteq ret.disk
           /\ (every_deletion_succeeded =>
                  /\ Cardinality(valid_after) <= 10
                  /\ \A f \in valid_before :
                         Cardinality({g \in valid_after : window_key(g.timestamp) = window_key(f.timestamp)})
                             <= arg.keep_latest)

\* C15 witness: with K = 5, windows of 6, 5 and 6 files and renamed files
\* present, seven files have been deleted: one per crowded window by the
\* window rule and five by the global limit, which leaves ten valid files and
\* every renamed file.
C15_Witness ==
    /\ pc = "cleanup_return"
    /\ arg.keep_latest = 5
    /\ arg.counts = <<6, 5, 6>>
    /\ arg.renamed = RenamedFiles
    /\ ~arg.locked
    /\ ret.deleted_count = 7
    /\ Cardinality(ValidNames(ret.disk)) = 10
    /\ RenamedFiles \subseteq ret.disk

\* C16 as stated: no valid file that is kept is strictly older than a valid
\* file that is deleted, whatever the distribution over the windows.
C16_NoKeptOlderThanDeleted ==
    pc = "cleanup_return" =>
        LET valid_before == ValidFiles(CleanupDisk(arg))
            deleted == {f \in valid_before : f.file \notin ret.disk}
            kept == {f \in valid_before : f.file \in ret.files_to_keep}
        IN \A d \in deleted : \A k \in kept : ~Earlier(k.timestamp, d.timestamp)

\* C16 as the code has it: inside one five-minute window no kept file is older
\* than a deleted file of that window, and a file deleted by the global limit
\* is older than every file kept.
C16_RecencyPerWindow ==
    pc = "cleanup_return" =>
        LET valid_before == ValidFiles(CleanupDisk(arg))
            deleted == {f \in valid_before : f.file \notin ret.disk}
            kept == {f \in valid_before : f.file \in ret.files_to_keep}
        IN \A d \in deleted : \A k \in kept :
               (window_key(k.timestamp) = window_key(d.timestamp) \/ d.file \in ret.excess_files)
                   => Earlier(d.timestamp, k.timestamp)

\* C16 witness: with K = 2 the older window held one file and the newer
\* window three; the oldest file of the newer window has been deleted, its two
\* newer files are kept, and so is the file of the older window.
C16_Witness ==
    /\ pc = "cleanup_return"
    /\ arg.keep_latest = 2
    /\ arg.counts = <<1, 3, 0>>
    /\ ~arg.locked
    /\ ValidNames(CleanupDisk(arg)) \ ret.disk = {ResultFile(2, 0)}
    /\ ValidNames(ret.disk) = {ResultFile(1, 0), ResultFile(2, 1), ResultFile(2, 2)}

(***************************************************************************)
(* The report of a run                                                     *)
(***************************************************************************)
Reported == pc \in {"returned", "exited"} /\ cs_files # <<>>

\* C17: when writing the result file fails, write_results prints a warning and
\* still prints the complete report (warning lines, error lines, summary line
\* and build-status line), and the verdict of run_all_checks is the one it
\* has when the write succeeds.
C17_WriteFailureStillPrints ==
    (Reported /\ ~ret.written) =>
        /\ success = ~HasError(all_issues)
        /\ \E k \in 1..Len(ret.printed) : StartsWith(ret.printed[k], "Warning: Could not write")
        /\ \A k \in 1..Len(ret.output_lines) : ret.output_lines[k] \in Range(ret.printed)

\* The part of C17 that holds: the verdict does not depend on the write.
WriteFailureKeepsVerdict ==
    Reported => (success = ~HasError(all_issues))

IsIssueLine(l) == l \in {format_issue_compiler_style(all_issues[i]) : i \in 1..Len(all_issues)}

FailedLine == "BUILD STATUS: FAILED (errors found)"

PassedLines == {"BUILD STATUS: PASSED (warnings only)", "BUILD STATUS: PASSED (no issues)"}

\* C18: the report holds one line for each aggregated issue, the warnings in
\* aggregation order and then the errors in aggregation order; each non-empty
\* block is preceded by its header and the divider; the build status reads
\* FAILED iff there is an error and PASSED otherwise, and the exit code is
\* non-zero under the same condition.
C18_ReportOrder ==
    Reported =>
        LET lines == ret.output_lines
            warns == SelectSeq(all_issues, LAMBDA i : i.severity = "warning")
            errs == SelectSeq(all_issues, LAMBDA i : i.severity = "error")
            first(l) == CHOOSE k \in 1..Len(lines) : lines[k] = l /\ \A j \in 1..(k - 1) : lines[j] # l
        IN /\ SelectSeq(lines, IsIssueLine) = FormatAll(warns) \o FormatAll(errs)
           /\ Len(warns) + Len(errs) = Len(all_issues)
           /\ warns # <<>> =>
                  /\ first(FormatAll(warns)[1]) = 3
                  /\ lines[1] = "WARNINGS:"
                  /\ lines[2] = Divider
           /\ errs # <<>> =>
                  /\ first(FormatAll(errs)[1]) > 2
                  /\ lines[first(FormatAll(errs)[1]) - 2] = "ERRORS:"
                  /\ lines[first(FormatAll(errs)[1]) - 1] = Divider
           /\ warns = <<>> => "WARNINGS:" \notin Range(lines)
           /\ errs = <<>> => "ERRORS:" \notin Range(lines)
           /\ Cardinality({k \in 1..Len(lines) : lines[k] \in PassedLines \cup {FailedLine}}) = 1
           /\ FailedLine \in Range(lines) <=> errs # <<>>
           /\ ret.written => (ret.printed = lines /\ ret.file = lines)
           /\ pc = "exited" => (exit_code # 0 <=> FailedLine \in Range(lines))

\* C18 witness: a run over MaxFiles files that aggregated an error before a
\* warning has written its report, the warning line in the third place and the
\* error line after it, and has exited with 1.
C18_Witness ==
    /\ pc = "exited"
    /\ Len(cs_files) = MaxFiles
    /\ Len(all_issues) = 2
    /\ all_issues[1].severity = "error"
    /\ all_issues[2].severity = "warning"
    /\ ret.written
    /\ ret.printed[3] = format_issue_compiler_style(all_issues[2])
    /\ ret.printed[7] = format_issue_compiler_style(all_issues[1])
    /\ exit_code = 1

(***************************************************************************)
(* The issues after their construction                                     *)
(***************************************************************************)
\* The issues of the files checked so far, as the rules returned them.
ReturnedIssues ==
    Flatten([k \in 1..Len(checked) |->
                Flatten([i \in 1..Len(checked[k].returned) |-> checked[k].returned[i].issues])])

\* C19: an Issue is immutable once created: the issues check_file hands on and
\* run_all_checks aggregates carry, in either mode, the five fields the rule
\* gave them when it returned them.
C19_IssueImmutable ==
    /\ \A k \in 1..Len(checked) : checked[k].results = checked[k].returned
    /\ all_issues = ReturnedIssues

\* The fields of C19 other than file_path are never changed.
IssueImmutableButPath ==
    /\ Len(all_issues) = Len(ReturnedIssues)
    /\ \A i \in 1..Len(all_issues) :
          [all_issues[i] EXCEPT !.file_path = <<>>] = [ReturnedIssues[i] EXCEPT !.file_path = <<>>]

(***************************************************************************)
(* string_checks.py: check_long_methods and check_cyclomatic_complexity;   *)
(* utils.py: extract_method_name                                           *)
(***************************************************************************)
\* str.count(sub) for a substring: the occurrences that do not overlap
RECURSIVE CountSub(_, _)
CountSub(s, sub) ==
    LET k == Find(s, sub)
    IN IF k = 0 THEN 0 ELSE 1 + CountSub(SubSeq(s, k + Len(sub), Len(s)), sub)

\* The indices at which the last character of an occurrence of one of the
\* keywords lies.
KeywordEnds(line, keywords) ==
    UNION {{p + Len(k) - 1 : p \in {i \in 1..(Len(line) - Len(k) + 1) : SubSeq(line, i, i + Len(k) - 1) = k}} :
               k \in keywords}

\* The last index of the run of word characters that starts at w
RunEnd(line, w) == SetMax({r \in w..Len(line) : \A t \in w..r : IsWordChar(Char(line, t))})

\* \s*\( after index r: the index of the parenthesis, 0 for none
ParenAfter(line, r) ==
    LET qs == {q \in (r + 1)..Len(line) :
                  Char(line, q) = "(" /\ \A t \in (r + 1)..(q - 1) : Char(line, t) \in Whitespace}
    IN IF qs = {} THEN 0 ELSE SetMin(qs)

\* utils.extract_method_name: re.search(r'\s+(\w+)\s*\(', line)
extract_method_name(line) ==
    LET starts == {w \in 2..Len(line) :
                      /\ Char(line, w - 1) \in Whitespace
                      /\ IsWordChar(Char(line, w))
                      /\ ParenAfter(line, RunEnd(line, w)) # 0}
    IN IF starts = {} THEN "unknown"
       ELSE SubSeq(line, SetMin(starts), RunEnd(line, SetMin(starts)))

\* .*\w+\s*\([^)]*\) after index e
CallShapeAfter(line, e) ==
    \E r \in (e + 1)..Len(line) :
        /\ IsWordChar(Char(line, r))
        /\ ParenAfter(line, r) # 0
        /\ \E c \in (ParenAfter(line, r) + 1)..Len(line) : Char(line, c) = ")"

\* .*\s+\w+\s*\([^)]*\) after index e
SpacedCallShapeAfter(line, e) ==
    \E t \in (e + 1)..Len(line) :
        /\ Char(line, t) \in Whitespace
        /\ t < Len(line)
        /\ IsWordChar(Char(line, t + 1))
        /\ \E r \in (t + 1)..RunEnd(line, t + 1) :
              /\ ParenAfter(line, r) # 0
              /\ \E c \in (ParenAfter(line, r) + 1)..Len(line) : Char(line, c) = ")"

\* re.search(r'(public|private|protected|internal).*\w+\s*\([^)]*\)', line)
CyclomaticMethodPattern(line) ==
    \E e \in KeywordEnds(line, {"public", "private", "protected", "internal"}) :
        CallShapeAfter(line, e)

\* re.search(r'(public|private|protected|internal|static).*\s+\w+\s*\([^)]*\)\s*\{?', stripped)
LongMethodPattern(stripped) ==
    \E e \in KeywordEnds(stripped, {"public", "private", "protected", "internal", "static"}) :
        SpacedCallShapeAfter(stripped, e)

LineNumberFromZero(k) == k

\* enumerate(lines, 1): the line number of lines[k]
LineNumber(k) == k + 1

max_method_length == 80

LongMethodIssue(fp, method_start_line, method_name, method_length) ==
    Issue(clean_file_path(fp), method_start_line, "warning", "BCW011",
          "Method '" \o method_name \o "' is too long (" \o ToStr(method_length) \o " lines > "
              \o ToStr(max_method_length) \o ") - consider breaking it down")

\* The variables of the loop of check_long_methods before the first line
LongMethodStart == [in_method |-> FALSE, method_start_line |-> 0, method_name |-> "", brace_count |-> 0]

\* One iteration of the loop of check_long_methods, on lines[k + 1]: the
\* variables after it and the issues it appends
LongMethodStep(st, k, line, fp) ==
    LET line_num == LineNumber(k)
        stripped == Strip(line)
        brace_count == st.brace_count + CountSub(stripped, "{") - CountSub(stripped, "}")
        method_length == line_num - st.method_start_line + 1
    IN IF stripped = "" \/ StartsWith(stripped, "//") \/ StartsWith(stripped, "*")
       THEN [st |-> st, issues |-> <<>>]
       ELSE IF ~st.in_method /\ LongMethodPattern(stripped)
       THEN [st |-> [in_method |-> TRUE, method_start_line |-> line_num,
                     method_name |-> extract_method_name(stripped),
                     brace_count |-> CountSub(stripped, "{") - CountSub(stripped, "}")],
             issues |-> <<>>]
       ELSE IF st.in_method
       THEN [st |-> [st EXCEPT !.brace_count = brace_count, !.in_method = brace_count > 0],
             issues |-> IF brace_count <= 0 /\ method_length > max_method_length
                        THEN <<LongMethodIssue(fp, st.method_start_line, st.method_name, method_length)>>
                        ELSE <<>>]
       ELSE [st |-> st, issues |-> <<>>]

\* The loop of check_long_methods over lines[lo + 1 .. hi], entered with the
\* variables st: the first half of the lines, then the second half from the
\* variables the first half leaves behind.
RECURSIVE LongMethodScan(_, _, _, _, _)
LongMethodScan(lines, lo, hi, st, fp) ==
    IF lo >= hi THEN [st |-> st, issues |-> <<>>]
    ELSE IF hi = lo + 1 THEN LongMethodStep(st, lo, lines[lo + 1], fp)
    ELSE LET mid == (lo + hi) \div 2
             first == LongMethodScan(lines, lo, mid, st, fp)
             second == LongMethodScan(lines, mid, hi, first.st, fp)
         IN [issues |-> first.issues \o second.issues, st |-> second.st]

\* StringBasedChecker.check_long_methods
check_long_methods(file_path, content) ==
    LET lines == Split(content, "\n")
    IN LongMethodScan(lines, 0, Len(lines), LongMethodStart, file_path).issues

complexity_keywords == <<"if", "else if", "while", "for", "foreach", "switch", "case", "catch", "&&", "||", "?">>

RECURSIVE SumSeq(_)
SumSeq(q) == IF q = <<>> THEN 0 ELSE Head(q) + SumSeq(Tail(q))

\* for keyword in complexity_keywords: complexity += line.lower().count(keyword)
KeywordCount(line) ==
    SumSeq([i \in 1..Len(complexity_keywords) |-> CountSub(Lower(line), complexity_keywords[i])])

CyclomaticIssue(fp, method_start, method_name, complexity) ==
    Issue(clean_file_path(fp), method_start, "warning", "BCW040",
          "Method '" \o method_name \o "' has high cyclomatic complexity (" \o ToStr(complexity)
              \o ") - consider refactoring")

\* The loop of check_cyclomatic_complexity from lines[k] on
RECURSIVE CyclomaticScan(_, _, _, _, _, _, _)
CyclomaticScan(lines, k, in_method, method_start, complexity, method_name, fp) ==
    IF k >= Len(lines) THEN <<>>
    ELSE LET line == lines[k + 1]
             detected == CyclomaticMethodPattern(line) /\ Contains(line, "{")
             replaced == IF detected /\ in_method /\ complexity > 10
                         THEN <<CyclomaticIssue(fp, method_start, method_name, complexity)>>
                         ELSE <<>>
             in_now == in_method \/ detected
             start_now == IF detected THEN LineNumber(k) ELSE method_start
             name_now == IF detected THEN extract_method_name(line) ELSE method_name
             counted == (IF detected THEN 1 ELSE complexity) + (IF in_now THEN KeywordCount(line) ELSE 0)
             closes == in_now /\ Contains(line, "}") /\ CountSub(line, "}") >= CountSub(line, "{")
             closed == IF closes /\ counted > 10
                       THEN <<CyclomaticIssue(fp, start_now, name_now, counted)>>
                       ELSE <<>>
         IN IF StartsWith(Strip(line), "//")
            THEN CyclomaticScan(lines, k + 1, in_method, method_start, complexity, method_name, fp)
            ELSE replaced \o closed
                 \o CyclomaticScan(lines, k + 1, in_now /\ ~closes, start_now, counted, name_now, fp)

\* StringBasedChecker.check_cyclomatic_complexity
check_cyclomatic_complexity(file_path, content) ==
    CyclomaticScan(Split(content, "\n"), 0, FALSE, 0, 1, "", file_path)

(***************************************************************************)
(* SpecLines: every rule modelled line by line, run on its bounded inputs  *)
(***************************************************************************)
MaxBranchLines == 3

MaxMethodLines == 79

CyclomaticDeclarations == {"    private int Go(int a) {", "void Run() {"}

\* Statements that add four to the complexity each
BranchLines ==
    {"if (a && b || c) x = d ? e : f;",
     "else if (g) foreach (var h in i) j++;",
     "while (k) switch (l) m = n ?? o;"}

CyclomaticInputs ==
    [lead : 0..1, declaration : CyclomaticDeclarations, body : Seqs(BranchLines, MaxBranchLines),
     closed : BOOLEAN, again : BOOLEAN]

CyclomaticContent(a) ==
    Join([k \in 1..a.lead |-> "// note"] \o <<a.declaration>> \o a.body
             \o (IF a.again THEN <<a.declaration>> ELSE <<>>)
             \o (IF a.closed THEN <<"}">> ELSE <<>>),
         "\n")

LongMethodDeclarations == {"public void Run()", "static int Go(int a)"}

LongMethodInputs ==
    [lead : 0..1, declaration : LongMethodDeclarations, brace_below : BOOLEAN,
     body : (MaxMethodLines - 2)..MaxMethodLines]

LongMethodContent(a) ==
    Join([k \in 1..a.lead |-> ""]
             \o (IF a.brace_below THEN <<a.declaration, "{">> ELSE <<a.declaration \o " {">>)
             \o [k \in 1..a.body |-> "    x = 1;"] \o <<"}">>,
         "\n")

\* The inputs of SpecLines: those of the rule specifications, with the parts
\* that leave the position of the lines alone held fixed.
LinesInputs ==
    {[rule |-> "empty_catch_blocks", input |-> a] : a \in {b \in CatchInputs : Len(b.body) <= 2}}
        \cup {[rule |-> "harmony_patch_classes", input |-> a] :
                 a \in {b \in PatchClassInputs : b.name = "Foo" /\ b.tail = ""}}
        \cup {[rule |-> "harmony_patch_methods", input |-> a] :
                 a \in {b \in PatchMethodInputs : b.name = "Prefix" /\ b.layout \in {"same", "spread"}}}
        \cup {[rule |-> "transpiler_calls", input |-> a] :
                 a \in {b \in TranspilerInputs : b.tmods = <<"private", "static">>}}
        \cup {[rule |-> "magic_numbers", input |-> a] :
                 a \in {b \in MagicInputs : b.number \in {"101", "1000"}}}
        \cup {[rule |-> "todo_comments", input |-> a] : a \in {b \in TodoInputs : b.code = ""}}
        \cup {[rule |-> "cyclomatic_complexity", input |-> a] : a \in CyclomaticInputs}
        \cup {[rule |-> "long_methods", input |-> a] : a \in LongMethodInputs}
        \cup {[rule |-> "file_read_error", input |-> Idle]}

InitLines ==
    /\ pc = "lines_call"
    /\ arg \in LinesInputs
    /\ ret = Idle
    /\ OrchestratorIdle

\* One rule returns: ret is the list of issues it gives for the input.
Returns(rule, issues) ==
    /\ pc = "lines_call"
    /\ arg.rule = rule
    /\ ret' = issues
    /\ pc' = "lines_return"
    /\ UNCHANGED <<forbidden_strings, roslyn, cs_files, fidx, all_issues, checked, errors, warnings, success, exit_code, arg>>

LinesEmptyCatch ==
    Returns("empty_catch_blocks", check_empty_catch_blocks(RuleFile, CatchContent(arg.input)))

LinesPatchClass ==
    Returns("harmony_patch_classes",
            check_harmony_patch_class_declaration(RuleFile, PatchClassContent(arg.input)))

LinesPatchMethod ==
    Returns("harmony_patch_methods",
            check_harmony_patch_method_declaration(RuleFile, PatchMethodContent(arg.input)))

\* The patch-method rule in both modes on one file
LinesTranspiler ==
    Returns("transpiler_calls",
            check_harmony_patch_method_declaration(RuleFile, TranspilerContent(arg.input))
                \o check_harmony_patch_methods(RuleFile, TranspilerTree(arg.input)))

LinesMagic == Returns("magic_numbers", check_magic_numbers(RuleFile, MagicContent(arg.input)))

LinesTodo == Returns("todo_comments", check_todo_comments(RuleFile, TodoLine(arg.input)))

LinesCyclomatic ==
    Returns("cyclomatic_complexity", check_cyclomatic_complexity(RuleFile, CyclomaticContent(arg.input)))

LinesLongMethod ==
    Returns("long_methods", check_long_methods(RuleFile, LongMethodContent(arg.input)))

\* check_file on a file that cannot be read
LinesReadError == Returns("file_read_error", FileReadError(RuleFile).issues)

NextLines ==
    \/ LinesEmptyCatch
    \/ LinesPatchClass
    \/ LinesPatchMethod
    \/ LinesTranspiler
    \/ LinesMagic
    \/ LinesTodo
    \/ LinesCyclomatic
    \/ LinesLongMethod
    \/ LinesReadError

SpecLines == InitLines /\ [][NextLines]_vars

\* C20: every issue a rule returns, the read-error issue included, has a line
\* number of at least 1; the scanners that keep a line in a variable starting
\* at 0 or -1 never report that initial value.
C20_LineNumberPositive ==
    pc = "lines_return" => \A k \in 1..Len(ret) : ret[k].line_number >= 1

\* C20 witness: a method of more than 80 lines that starts on the first line
\* has been reported by the long-method scanner, at line 1.
C20_Witness ==
    /\ pc = "lines_return"
    /\ arg.rule = "long_methods"
    /\ arg.input.lead = 0
    /\ Len(ret) = 1
    /\ ret[1].code = "BCW011"
    /\ ret[1].line_number = 1

\* A method of complexity 13 that is cut short by the next declaration has
\* been reported at its own line.
CyclomaticReported ==
    /\ pc = "lines_return"
    /\ arg.rule = "cyclomatic_complexity"
    /\ arg.input.lead = 1
    /\ arg.input.again
    /\ ~arg.input.closed
    /\ Len(ret) = 1
    /\ ret[1].line_number = 2

(***************************************************************************)
(* string_checks.py: check_forbidden_strings, line by line                 *)
(***************************************************************************)
LineHoldsAnyCase(line, forbidden_string) == Contains(Lower(line), Lower(forbidden_string))

\* "forbidden_string in line"
LineHolds(line, forbidden_string) == Contains(line, forbidden_string)

\* The inner loop: the issues of one registered pattern, in line order
ForbiddenStringLines(fp, lines, r) ==
    LET hit == SelectSeq([n \in 1..Len(lines) |-> n], LAMBDA n : LineHolds(lines[n], r.pattern))
    IN [k \in 1..Len(hit) |-> Issue(clean_file_path(fp), hit[k], r.severity, r.code, r.description)]

\* StringBasedChecker.check_forbidden_strings on the text of a file; reg is
\* the dict in insertion order.
ForbiddenStringIssues(fp, content, reg) ==
    Flatten([i \in 1..Len(reg) |-> ForbiddenStringLines(fp, Split(content, "\n"), reg[i])])

(***************************************************************************)
(* SpecForbidden: the rule on bounded registries and contents              *)
(***************************************************************************)
MaxRegistrations == 2

MaxForbiddenLines == 3

ForbiddenPatterns == {"Debug.Log", "UnityEngine.Debug.Log", ".Result"}

ForbiddenLines ==
    {"", "Debug.Log(x);", "UnityEngine.Debug.Log(task.Result); Debug.Log(y);", "debug.log(t.result);"}

\* The calls of add_forbidden_string_check made on an empty registry
ForbiddenAdditions ==
    Seqs({[pattern |-> p, severity |-> v] : p \in ForbiddenPatterns, v \in {"error", "warning"}},
         MaxRegistrations)

RECURSIVE RegistryOf(_)
RegistryOf(adds) ==
    IF adds = <<>> THEN <<>>
    ELSE LET a == adds[Len(adds)]
         IN add_forbidden_string_check(RegistryOf(SubSeq(adds, 1, Len(adds) - 1)), a.pattern, a.severity,
                                       "BCX" \o ToStr(Len(adds)), "found " \o a.pattern)

ForbiddenInputs == [adds : ForbiddenAdditions, lines : Seqs(ForbiddenLines, MaxForbiddenLines)]

InitForbidden ==
    /\ pc = "forbidden_call"
    /\ arg \in ForbiddenInputs
    /\ ret = Idle
    /\ OrchestratorIdle

ForbiddenStrings ==
    /\ pc = "forbidden_call"
    /\ ret' = ForbiddenStringIssues(RuleFile, Join(arg.lines, "\n"), RegistryOf(arg.adds))
    /\ pc' = "forbidden_return"
    /\ UNCHANGED <<forbidden_strings, roslyn, cs_files, fidx, all_issues, checked, errors, warnings, success, exit_code, arg>>

NextForbidden == ForbiddenStrings

SpecForbidden == InitForbidden /\ [][NextForbidden]_vars

\* The pairs (place in the registry, line number) at which a registered
\* pattern occurs as a case-sensitive substring of a line.
ForbiddenPairs ==
    LET reg == RegistryOf(arg.adds)
        lines == IF arg.lines = <<>> THEN <<"">> ELSE arg.lines
    IN {q \in (1..Len(reg)) \X (1..Len(lines)) : Contains(lines[q[2]], reg[q[1]].pattern)}

PairBefore(a, b) == a[1] < b[1] \/ (a[1] = b[1] /\ a[2] < b[2])

\* C21: the rule returns one issue for each pair (registered pattern, line)
\* such that the pattern occurs in the line as a case-sensitive substring,
\* with the severity, code and description registered for the pattern, and
\* nothing else; the issues come in registration order and, inside one
\* pattern, in ascending line order.
C21_AllMatchesReported ==
    pc = "forbidden_return" =>
        LET reg == RegistryOf(arg.adds)
            pairs == ForbiddenPairs
            kth(k) == CHOOSE q \in pairs : Cardinality({o \in pairs : PairBefore(o, q)}) = k - 1
        IN /\ Len(ret) = Cardinality(pairs)
           /\ \A k \in 1..Len(ret) :
                  ret[k] = [file_path |-> <<1>>, line_number |-> kth(k)[2],
                            severity |-> reg[kth(k)[1]].severity, code |-> reg[kth(k)[1]].code,
                            description |-> reg[kth(k)[1]].description]

\* C21 witness: with "Debug.Log" registered before ".Result", a file whose
\* first line holds both and whose second line holds them in lower case only
\* has given the Debug.Log issue of line 1 and then the .Result issue of line 1.
C21_Witness ==
    /\ pc = "forbidden_return"
    /\ Len(arg.adds) = 2
    /\ arg.adds[1].pattern = "Debug.Log"
    /\ arg.adds[2].pattern = ".Result"
    /\ arg.lines = <<"UnityEngine.Debug.Log(task.Result); Debug.Log(y);", "debug.log(t.result);">>
    /\ Len(ret) = 2
    /\ ret[1].code = "BCX1" /\ ret[1].line_number = 1
    /\ ret[2].code = "BCX2" /\ ret[2].line_number = 1

(***************************************************************************)
(* SpecPatchTarget: the patch-class rule on files in which other lines lie *)
(* between the attribute and the class                                     *)
(***************************************************************************)
MaxBetween == 2

BetweenLines == {"", "[Serializable]", "#if DEBUG", "int x = 1;", "private void Run() { }"}

PatchTargets == {<<>>, <<"public class Foo">>, <<"internal static class Foo">>}

PatchTargetInputs == [between : Seqs(BetweenLines, MaxBetween), target : PatchTargets]

\* The file of an input: the attribute on line 1, the lines between, the class
PatchTargetLines(a) == <<"[HarmonyPatch]">> \o a.between \o a.target

InitPatchTarget ==
    /\ pc = "patch_target_call"
    /\ arg \in PatchTargetInputs
    /\ ret = Idle
    /\ OrchestratorIdle

PatchTarget ==
    /\ pc = "patch_target_call"
    /\ ret' = check_harmony_patch_class_declaration(RuleFile, Join(PatchTargetLines(arg), "\n"))
    /\ pc' = "patch_target_return"
    /\ UNCHANGED <<forbidden_strings, roslyn, cs_files, fidx, all_issues, checked, errors, warnings, success, exit_code, arg>>

NextPatchTarget == PatchTarget

SpecPatchTarget == InitPatchTarget /\ [][NextPatchTarget]_vars

\* A blank, comment, attribute or preprocessor line
IsSkippedKind(line) ==
    \/ Strip(line) = ""
    \/ StartsWith(Strip(line), "//")
    \/ StartsWith(Strip(line), "*")
    \/ StartsWith(Strip(line), "[")
    \/ StartsWith(Strip(line), "#")

\* The line that immediately follows the attribute of line 1 once the lines
\* of the skipped kinds are passed over; 0 for none.
FollowingLine(lines) ==
    LET rest == {n \in 2..Len(lines) : ~IsSkippedKind(lines[n])}
    IN IF rest = {} THEN 0 ELSE SetMin(rest)

\* C22: the attribute constrains only the declaration that immediately
\* follows it: a BCS050 issue is raised only at the class line that follows
\* the attribute with nothing but skipped lines between; a method signature
\* following the attribute gives no issue; and when nothing follows, one
\* BCS051 issue is raised at the attribute's line.
C22_ImmediateDeclaration ==
    pc = "patch_target_return" =>
        LET lines == PatchTargetLines(arg)
            next == FollowingLine(lines)
        IN /\ \A k \in 1..Len(ret) :
                  ret[k].code = "BCS050" =>
                      (next # 0 /\ ret[k].line_number = next /\ Contains(lines[next], "class "))
           /\ (next # 0 /\ lines[next] = "private void Run() { }") => ret = <<>>
           /\ next = 0 =>
                  (Len(ret) = 1 /\ ret[1].code = "BCS051" /\ ret[1].line_number = 1)

\* The parts of C22 about a following method signature and a missing
\* declaration hold.
PatchTargetMethodOrNothing ==
    pc = "patch_target_return" =>
        LET lines == PatchTargetLines(arg)
            next == FollowingLine(lines)
        IN /\ (next # 0 /\ lines[next] = "private void Run() { }") => ret = <<>>
           /\ next = 0 =>
                  (Len(ret) = 1 /\ ret[1].code = "BCS051" /\ ret[1].line_number = 1)

\* A class two lines below the attribute, a field between them, has been
\* reported.
PatchTargetDistantClass ==
    /\ pc = "patch_target_return"
    /\ arg.between = <<"int x = 1;">>
    /\ arg.target = <<"public class Foo">>
    /\ Len(ret) = 1
    /\ ret[1].code = "BCS050"
    /\ ret[1].line_number = 3

(***************************************************************************)
(* SpecTodoCode: check_todo_comments on lines with a code part and a       *)
(* comment                                                                 *)
(***************************************************************************)
TodoCodeParts ==
    {"", "x = 1; ", "var todoList = Load(); ", "Todo(1); ", "items.Add(TODO_KEY); ",
     "int autodoor = 2; "}

TodoCommentParts ==
    {"", "// init", "// TODO: fix", "// todo", "//ToDo later", "/* later */", "/* todo */",
     "/* keep the Todo list */", "// see above", "/* open"}

TodoCodeInputs == [code : TodoCodeParts, comment : TodoCommentParts]

InitTodoCode ==
    /\ pc = "todo_code_call"
    /\ arg \in TodoCodeInputs
    /\ ret = Idle
    /\ OrchestratorIdle

TodoCodeLine ==
    /\ pc = "todo_code_call"
    /\ ret' = check_todo_comments(RuleFile, arg.code \o arg.comment)
    /\ pc' = "todo_code_return"
    /\ UNCHANGED <<forbidden_strings, roslyn, cs_files, fidx, all_issues, checked, errors, warnings, success, exit_code, arg>>

NextTodoCode == TodoCodeLine

SpecTodoCode == InitTodoCode /\ [][NextTodoCode]_vars

\* C23: a BCW013 warning is reported for a line only if todo, in any letter
\* case, occurs inside the comment of the line; todo in the code part alone
\* gives no warning.
C23_TodoInsideComment ==
    pc = "todo_code_return" =>
        \A k \in 1..Len(ret) :
            ret[k].code = "BCW013" => Contains(Lower(arg.comment), "todo")

\* A line with todo in an identifier and a comment that does not mention it
\* has been reported.
TodoInCodeReported ==
    /\ pc = "todo_code_return"
    /\ arg.code = "var todoList = Load(); "
    /\ arg.comment = "// init"
    /\ Len(ret) = 1
    /\ ret[1].code = "BCW013"
    /\ ret[1].description = "TODO: init"

\* Without any comment on the line nothing is reported, and a comment that
\* mentions todo is always reported.
TodoCommentReported ==
    pc = "todo_code_return" =>
        /\ arg.comment = "" => ret = <<>>
        /\ Contains(Lower(arg.comment), "todo") => Len(ret) = 1

(***************************************************************************)
(* SpecComplexity: check_cyclomatic_complexity on one closed method whose  *)
(* body holds branches and nested blocks                                   *)
(***************************************************************************)
MaxStatements == 3

\* The statements of a body, each the lines it takes
ComplexityStatements ==
    {<<"if (a && b || c) x = d ? e : f;">>,
     <<"else if (g) y++;">>,
     <<"foreach (var h in i) j++;">>,
     <<"if (k && m) {", "n = p ? q : r;", "}">>,
     <<"while (s || t) u = v ? w : z;">>}

ComplexityInputs == [body : Seqs(ComplexityStatements, MaxStatements)]

\* The lines of an input: the declaration, the body, the closing brace
ComplexityLines(a) == <<"private int Go(int a) {">> \o Flatten(a.body) \o <<"}">>

InitComplexity ==
    /\ pc = "complexity_call"
    /\ arg \in ComplexityInputs
    /\ ret = Idle
    /\ OrchestratorIdle

Complexity ==
    /\ pc = "complexity_call"
    /\ ret' = check_cyclomatic_complexity(RuleFile, Join(ComplexityLines(arg), "\n"))
    /\ pc' = "complexity_return"
    /\ UNCHANGED <<forbidden_strings, roslyn, cs_files, fidx, all_issues, checked, errors, warnings, success, exit_code, arg>>

NextComplexity == Complexity

SpecComplexity == InitComplexity /\ [][NextComplexity]_vars

\* The keywords of a line, each occurrence counted once: the "if" of an
\* "else if" and the "for" of a "foreach" are not counted again.
KeywordOccurrences(line) ==
    KeywordCount(line) - CountSub(Lower(line), "else if") - CountSub(Lower(line), "foreach")

\* 1 plus the keywords between the declaration and the line on which the
\* brace depth is back at 0, which is the last line of the file of an input
SpanComplexity(lines) == 1 + SumSeq([k \in 1..Len(lines) |-> KeywordOccurrences(lines[k])])

\* C24: the complexity of a method is 1 plus the number of keywords from
\* its declaration to the line where the brace depth returns to 0, each
\* occurrence counted once, and one BCW040 warning with that complexity is
\* issued at the declaration line iff it exceeds 10.
C24_ComplexityOfSpan ==
    pc = "complexity_return" =>
        LET complexity == SpanComplexity(ComplexityLines(arg))
        IN ret = IF complexity > 10
                 THEN <<CyclomaticIssue(RuleFile, 1, "Go", complexity)>>
                 ELSE <<>>

\* The method ends at the closing brace of its inner block: the eight
\* keywords below the block are not counted, and a method of complexity 12
\* is not reported.
ComplexityEndsAtInnerBrace ==
    /\ pc = "complexity_return"
    /\ arg.body = <<<<"if (k && m) {", "n = p ? q : r;", "}">>,
                    <<"if (a && b || c) x = d ? e : f;">>,
                    <<"if (a && b || c) x = d ? e : f;">>>>
    /\ ret = <<>>

\* An "else if" counts twice: a method of complexity 10 is reported with 11.
ComplexityElseIfTwice ==
    /\ pc = "complexity_return"
    /\ arg.body = <<<<"if (a && b || c) x = d ? e : f;">>,
                    <<"if (a && b || c) x = d ? e : f;">>,
                    <<"else if (g) y++;">>>>
    /\ ret = <<CyclomaticIssue(RuleFile, 1, "Go", 11)>>

(***************************************************************************)
(* SpecLongAfter: check_long_methods on a method that follows another      *)
(* declaration                                                             *)
(***************************************************************************)
\* What precedes the method: nothing, a single-line method, a declaration
\* without braces, a short method
PrecedingDeclarations ==
    {<<>>,
     <<"public int Get() { return 1; }">>,
     <<"public abstract void Stop();">>,
     <<"public void Short() {", "}">>}

LongAfterInputs ==
    [before : PrecedingDeclarations, declaration : LongMethodDeclarations,
     body : (MaxMethodLines - 6)..MaxMethodLines]

\* The lines of the method of an input
LongAfterMethod(a) ==
    <<a.declaration \o " {">> \o [k \in 1..a.body |-> "    x = 1;"] \o <<"}">>

LongAfterContent(a) == Join(a.before \o LongAfterMethod(a), "\n")

InitLongAfter ==
    /\ pc = "long_after_call"
    /\ arg \in LongAfterInputs
    /\ ret = Idle
    /\ OrchestratorIdle

LongAfter ==
    /\ pc = "long_after_call"
    /\ ret' = check_long_methods(RuleFile, LongAfterContent(arg))
    /\ pc' = "long_after_return"
    /\ UNCHANGED <<forbidden_strings, roslyn, cs_files, fidx, all_issues, checked, errors, warnings, success, exit_code, arg>>

NextLongAfter == LongAfter

SpecLongAfter == InitLongAfter /\ [][NextLongAfter]_vars

\* C25: a method that starts at line s and whose closing brace is on line e
\* gets exactly one BCW011 warning at line s iff e - s + 1 > 80, whatever
\* precedes it; the declarations that precede it here are shorter and get
\* none.
C25_LongMethodIndependent ==
    pc = "long_after_return" =>
        LET s == Len(arg.before) + 1
            e == Len(arg.before) + Len(LongAfterMethod(arg))
        IN ret = IF e - s + 1 > 80
                 THEN <<LongMethodIssue(RuleFile, s, extract_method_name(arg.declaration), e - s + 1)>>
                 ELSE <<>>

\* With nothing or a closed short method before it, the method is reported
\* iff it is longer than 80 lines.
LongMethodAfterClosed ==
    (pc = "long_after_return" /\ Len(arg.before) \in {0, 2}) =>
        LET s == Len(arg.before) + 1
            e == Len(arg.before) + Len(LongAfterMethod(arg))
        IN ret = IF e - s + 1 > 80
                 THEN <<LongMethodIssue(RuleFile, s, extract_method_name(arg.declaration), e - s + 1)>>
                 ELSE <<>>

\* A method of 80 lines that follows a single-line method has been reported
\* as a method of 81 lines at the line of the single-line method.
LongMethodSwallowed ==
    /\ pc = "long_after_return"
    /\ arg.before = <<"public int Get() { return 1; }">>
    /\ Len(LongAfterMethod(arg)) = 80
    /\ ret = <<LongMethodIssue(RuleFile, 1, "Get", 81)>>

(***************************************************************************)
(* roslyn_analyzer.py: check_harmony_patch_classes and                     *)
(* check_empty_catch_blocks on a syntax tree in which examining a node may *)
(* raise                                                                   *)
(***************************************************************************)
MaxNodes == 3

\* The class declarations and catch clauses of a tree.  A node with raises
\* set raises an exception when the rule examines it.
ClassNodes ==
    [kind : {"class"}, attributes : {<<>>, <<"HarmonyPatch">>},
     modifiers : {<<"public">>, <<"internal", "static">>}, raises : BOOLEAN]

CatchNodes == [kind : {"catch"}, statements : 0..1, raises : BOOLEAN]

\* root.DescendantNodes(), in traversal order; the node at position k lies
\* on line k.
SyntaxTrees == Seqs(ClassNodes \cup CatchNodes, MaxNodes)

\* The body of the loop of check_harmony_patch_classes for one class
RoslynClassIssues(file_path, class_decl, class_line) ==
    LET harmony_attr == \E k \in 1..Len(class_decl.attributes) :
                            Contains(Lower(class_decl.attributes[k]), "harmonypatch")
        has_internal == "internal" \in Range(class_decl.modifiers)
        has_static == "static" \in Range(class_decl.modifiers)
        missing == (IF ~has_internal THEN <<"internal">> ELSE <<>>)
                       \o (IF ~has_static THEN <<"static">> ELSE <<>>)
    IN IF harmony_attr /\ ~(has_internal /\ has_static)
       THEN <<Issue(file_path, class_line, "error", "BCS050",
                    "Class 'C" \o ToStr(class_line) \o "' with [HarmonyPatch] must be 'internal static' (missing: "
                        \o Join(missing, " ") \o ")")>>
       ELSE <<>>

\* The body of the loop of check_empty_catch_blocks for one catch clause
RoslynCatchIssues(file_path, catch_clause, line_number) ==
    IF catch_clause.statements = 0
    THEN <<Issue(file_path, line_number, "error", "BCS003",
                 "Empty catch block - should handle exceptions properly")>>
    ELSE <<>>

\* The positions of the nodes of a kind, in traversal order
NodesOfKind(root, kind) == SelectSeq([k \in 1..Len(root) |-> k], LAMBDA k : root[k].kind = kind)

\* "try: for node in nodes: ... except Exception: print(...)": the loop ends
\* at the first node that raises; the issues appended before it are returned.
LoopInsideTry(root, at) ==
    LET raising == {i \in 1..Len(at) : root[at[i]].raises}
    IN IF raising = {} THEN at ELSE SubSeq(at, 1, SetMin(raising) - 1)

\* "for node in nodes: try: ... except Exception: continue": only the nodes
\* that raise are left out.
TryInsideLoop(root, at) == SelectSeq(at, LAMBDA k : ~root[k].raises)

\* RoslynAnalyzer.check_harmony_patch_classes
roslyn_check_harmony_patch_classes(file_path, root) ==
    LET classes == LoopInsideTry(root, NodesOfKind(root, "class"))
    IN Flatten([i \in 1..Len(classes) |-> RoslynClassIssues(file_path, root[classes[i]], classes[i])])

\* RoslynAnalyzer.check_empty_catch_blocks
roslyn_check_empty_catch_blocks(file_path, root) ==
    LET catch_clauses == LoopInsideTry(root, NodesOfKind(root, "catch"))
    IN Flatten([i \in 1..Len(catch_clauses) |->
                    RoslynCatchIssues(file_path, root[catch_clauses[i]], catch_clauses[i])])

InitStructural ==
    /\ pc = "structural_call"
    /\ arg \in SyntaxTrees
    /\ ret = Idle
    /\ OrchestratorIdle

\* The two rules on one tree, in the order of check_file
Structural ==
    /\ pc = "structural_call"
    /\ ret' = roslyn_check_harmony_patch_classes(RuleFile, arg)
                  \o roslyn_check_empty_catch_blocks(RuleFile, arg)
    /\ pc' = "structural_return"
    /\ UNCHANGED <<forbidden_strings, roslyn, cs_files, fidx, all_issues, checked, errors, warnings, success, exit_code, arg>>

NextStructural == Structural

SpecStructural == InitStructural /\ [][NextStructural]_vars

\* The issues of the nodes of a tree that do not raise, rule by rule
IssuesOfOthers(root) ==
    LET classes == TryInsideLoop(root, NodesOfKind(root, "class"))
        catch_clauses == TryInsideLoop(root, NodesOfKind(root, "catch"))
    IN Flatten([i \in 1..Len(classes) |-> RoslynClassIssues(RuleFile, root[classes[i]], classes[i])])
       \o Flatten([i \in 1..Len(catch_clauses) |->
                       RoslynCatchIssues(RuleFile, root[catch_clauses[i]], catch_clauses[i])])

\* C26: when examining a node raises, only that node is skipped: the issues
\* of every other node are returned, those of the nodes after it included,
\* and the failure is not an issue.
C26_OnlyFailingConstructSkipped ==
    pc = "structural_return" => ret = IssuesOfOthers(arg)

\* A public patch class after a class that raises has not been reported.
StructuralLaterClassLost ==
    /\ pc = "structural_return"
    /\ Len(arg) = 2
    /\ arg[1].kind = "class" /\ arg[1].raises
    /\ arg[2] = [kind |-> "class", attributes |-> <<"HarmonyPatch">>, modifiers |-> <<"public">>,
                 raises |-> FALSE]
    /\ ret = <<>>

\* What holds: every issue returned is the issue of a node that does not
\* raise, the issues of the nodes before the first failure of a rule are
\* returned, and a failure in one rule leaves the other rule alone.
StructuralKeepsEarlier ==
    pc = "structural_return" =>
        /\ Range(ret) \subseteq Range(IssuesOfOthers(arg))
        /\ \A k \in 1..Len(arg) :
               (~arg[k].raises /\ \A j \in 1..(k - 1) : arg[j].kind = arg[k].kind => ~arg[j].raises) =>
                   \A i \in Range(IssuesOfOthers(<<>> \o [j \in 1..Len(arg) |->
                                      IF j = k THEN arg[j] ELSE [arg[j] EXCEPT !.raises = TRUE]])) :
                       i \in Range(ret)

(***************************************************************************)
(* roslyn_analyzer.py: check_excessive_nesting on syntax trees             *)
(***************************************************************************)
\* A missing node (None)
NoNode == [kind |-> "none"]

\* A statement without statements below it
SimpleStatement == [kind |-> "expression", child_nodes |-> <<>>]

BlockOf(statements) == [kind |-> "block", statements |-> statements]

\* The types listed in the last branch of _max_nesting_in_statement
NestingStatementKinds ==
    {"block", "if", "for", "foreach", "while", "do", "switch", "try", "using", "lock", "fixed"}

SameDepth(depth) == depth

\* "d = depth + 1"
Deeper(depth) == depth + 1

RECURSIVE _max_nesting_in_statement(_, _)
RECURSIVE _max_nesting_in_block(_, _)
_max_nesting_in_block(block, depth) ==
    IF block.kind = "none" THEN depth
    ELSE SetMax({depth} \cup {_max_nesting_in_statement(block.statements[k], depth) :
                                  k \in 1..Len(block.statements)})

_max_nesting_in_statement(stmt, depth) ==
    IF stmt.kind = "none" THEN depth
    ELSE IF stmt.kind = "if"
    THEN IF stmt.else_statement.kind # "none"
         THEN Max(_max_nesting_in_statement(stmt.statement, Deeper(depth)),
                  _max_nesting_in_statement(stmt.else_statement, Deeper(depth)))
         ELSE _max_nesting_in_statement(stmt.statement, Deeper(depth))
    ELSE IF stmt.kind \in {"for", "foreach", "while", "do"}
    THEN _max_nesting_in_statement(stmt.statement, Deeper(depth))
    ELSE IF stmt.kind = "switch"
    THEN SetMax({Deeper(depth)}
                \cup {_max_nesting_in_statement(stmt.sections[i][k], Deeper(depth)) :
                          i \in 1..Len(stmt.sections), k \in 1..1})
    ELSE IF stmt.kind = "try"
    THEN SetMax({_max_nesting_in_block(stmt.block, Deeper(depth))}
                \cup {_max_nesting_in_block(stmt.catches[k], Deeper(depth)) : k \in 1..Len(stmt.catches)}
                \cup {_max_nesting_in_block(stmt.finally, Deeper(depth))})
    ELSE IF stmt.kind \in {"using", "lock", "fixed"}
    THEN IF stmt.statement.kind = "block"
         THEN _max_nesting_in_block(stmt.statement, Deeper(depth))
         ELSE _max_nesting_in_statement(stmt.statement, Deeper(depth))
    ELSE IF stmt.kind = "block"
    THEN _max_nesting_in_block(stmt, depth)
    ELSE SetMax({depth}
                \cup {_max_nesting_in_statement(stmt.child_nodes[k], depth) :
                          k \in {j \in 1..Len(stmt.child_nodes) :
                                     stmt.child_nodes[j].kind \in NestingStatementKinds}})

max_nesting == 5

\* The loop body of check_excessive_nesting for one method
NestingIssues(file_path, method) ==
    LET max_depth == SetMax({0} \cup {_max_nesting_in_statement(method.body[k], 0) :
                                          k \in 1..Len(method.body)})
    IN IF max_depth > max_nesting
       THEN <<Issue(file_path, method.line, "warning", "BCW010",
                    "Excessive nesting level (" \o ToStr(max_depth) \o " > " \o ToStr(max_nesting)
                        \o ") in method '" \o method.name \o "' - consider refactoring")>>
       ELSE <<>>

\* RoslynAnalyzer.check_excessive_nesting
roslyn_check_excessive_nesting(file_path, methods) ==
    Flatten([k \in 1..Len(methods) |-> NestingIssues(file_path, methods[k])])

(***************************************************************************)
(* SpecNesting: check_excessive_nesting on methods whose body nests        *)
(* constructs one inside the other                                         *)
(***************************************************************************)
MaxOuter == 2

MaxLinks == 6

\* How a construct holds the next one: as the body of an if, as its else
\* branch, as the body of a loop, in a switch section, in the block, a catch
\* block or the finally block of a try, as the body of a using, lock or
\* fixed, in a plain block, under a label, or as the body of a lambda
\* expression of an expression statement.
Holders ==
    {"if", "else", "while", "do", "switch", "try", "catch", "finally", "using", "lock", "block",
     "labeled", "lambda"}

\* The statement that holds inner in the given way
Hold(holder, inner) ==
    CASE holder = "if" ->
             [kind |-> "if", statement |-> BlockOf(<<SimpleStatement, inner>>), else_statement |-> NoNode]
      [] holder = "else" ->
             [kind |-> "if", statement |-> BlockOf(<<SimpleStatement>>), else_statement |-> inner]
      [] holder = "while" -> [kind |-> "while", statement |-> BlockOf(<<inner>>)]
      [] holder = "do" -> [kind |-> "do", statement |-> inner]
      [] holder = "switch" ->
             [kind |-> "switch", sections |-> <<<<SimpleStatement>>, <<inner>>>>]
      [] holder = "try" ->
             [kind |-> "try", block |-> BlockOf(<<inner>>), catches |-> <<BlockOf(<<>>)>>,
              finally |-> NoNode]
      [] holder = "catch" ->
             [kind |-> "try", block |-> BlockOf(<<SimpleStatement>>),
              catches |-> <<BlockOf(<<>>), BlockOf(<<inner>>)>>, finally |-> NoNode]
      [] holder = "finally" ->
             [kind |-> "try", block |-> BlockOf(<<SimpleStatement>>), catches |-> <<>>,
              finally |-> BlockOf(<<inner>>)]
      [] holder = "using" -> [kind |-> "using", statement |-> BlockOf(<<inner>>)]
      [] holder = "lock" -> [kind |-> "lock", statement |-> inner]
      [] holder = "block" -> BlockOf(<<SimpleStatement, inner>>)
      [] holder = "labeled" -> [kind |-> "labeled", child_nodes |-> <<inner>>]
      [] holder = "lambda" ->
             [kind |-> "expression",
              child_nodes |-> <<[kind |-> "invocation",
                                 child_nodes |-> <<[kind |-> "lambda", child_nodes |-> <<BlockOf(<<inner>>)>>]>>]>>]

RECURSIVE Nest(_)
Nest(holders) ==
    IF holders = <<>> THEN SimpleStatement ELSE Hold(Head(holders), Nest(Tail(holders)))

NestingInputs ==
    [outer : Seqs(Holders, MaxOuter), link : {"else", "while"}, links : 0..MaxLinks,
     inner : Seqs(Holders, 1)]

\* The holders of an input from the outermost to the innermost
NestingHolders(a) == a.outer \o [k \in 1..a.links |-> a.link] \o a.inner

\* The method of an input
NestingMethod(a) ==
    [name |-> "Run", line |-> 3, body |-> <<SimpleStatement, Nest(NestingHolders(a))>>]

InitNesting ==
    /\ pc = "nesting_call"
    /\ arg \in NestingInputs
    /\ ret = Idle
    /\ OrchestratorIdle

Nesting ==
    /\ pc = "nesting_call"
    /\ ret' = roslyn_check_excessive_nesting(RuleFile, <<NestingMethod(arg)>>)
    /\ pc' = "nesting_return"
    /\ UNCHANGED <<forbidden_strings, roslyn, cs_files, fidx, all_issues, checked, errors, warnings, success, exit_code, arg>>

NextNesting == Nesting

SpecNesting == InitNesting /\ [][NextNesting]_vars

ControlKinds == {"if", "for", "foreach", "while", "do", "switch", "try", "using", "lock", "fixed"}

\* The nodes directly below a node of the tree, whatever their kind
ChildNodes(node) ==
    IF node.kind = "if" THEN <<node.statement, node.else_statement>>
    ELSE IF node.kind \in {"for", "foreach", "while", "do", "using", "lock", "fixed"}
    THEN <<node.statement>>
    ELSE IF node.kind = "switch" THEN Flatten(node.sections)
    ELSE IF node.kind = "try" THEN <<node.block>> \o node.catches \o <<node.finally>>
    ELSE IF node.kind = "block" THEN node.statements
    ELSE IF node.kind = "none" THEN <<>>
    ELSE node.child_nodes

\* The largest number of control constructs that enclose a statement at or
\* below a node which enclosing constructs enclose.  With everywhere set
\* every statement of the tree counts; otherwise only the statements reached
\* through control constructs and blocks, and below any other statement
\* through a block or control construct that is its direct child.
RECURSIVE EnclosingConstructs(_, _, _)
EnclosingConstructs(node, enclosing, everywhere) ==
    LET below == IF node.kind \in ControlKinds THEN enclosing + 1 ELSE enclosing
        children == ChildNodes(node)
        followed == {k \in 1..Len(children) :
                        \/ everywhere
                        \/ node.kind \in NestingStatementKinds
                        \/ children[k].kind \in NestingStatementKinds}
    IN SetMax({enclosing} \cup {EnclosingConstructs(children[k], below, everywhere) : k \in followed})

\* The issues of a method of the given depth
NestingExpected(a, depth) ==
    IF depth > 5
    THEN <<Issue(RuleFile, 3, "warning", "BCW010",
                 "Excessive nesting level (" \o ToStr(depth) \o " > 5) in method 'Run' - consider refactoring")>>
    ELSE <<>>

NestingInLambdaIgnored ==
    /\ pc = "nesting_return"
    /\ arg.outer = <<"lambda">>
    /\ arg.link = "while"
    /\ arg.links = 6
    /\ ret = <<>>

(***************************************************************************)
(* SpecGeneric: _remove_generic_params on every short text with angle      *)
(* brackets                                                                *)
(***************************************************************************)
MaxGenericLen == 5

GenericTexts == Strings({"a", "b", "<", ">"}, MaxGenericLen)

InitGeneric ==
    /\ pc = "generic_call"
    /\ arg \in GenericTexts
    /\ ret = Idle
    /\ OrchestratorIdle

\* The function applied once, and applied to its own result
RemoveGeneric ==
    /\ pc = "generic_call"
    /\ ret' = [once |-> _remove_generic_params(arg),
               twice |-> _remove_generic_params(_remove_generic_params(arg))]
    /\ pc' = "generic_return"
    /\ UNCHANGED <<forbidden_strings, roslyn, cs_files, fidx, all_issues, checked, errors, warnings, success, exit_code, arg>>

NextGeneric == RemoveGeneric

SpecGeneric == InitGeneric /\ [][NextGeneric]_vars

\* Every ">" of the text closes a "<" before it, and no "<" is left open.
Balanced(text) ==
    /\ Count(text, "<") = Count(text, ">")
    /\ \A n \in 1..Len(text) : Count(SubSeq(text, 1, n), "<") >= Count(SubSeq(text, 1, n), ">")

\* The "<" at i and the ">" at j are a matching pair.
MatchingPair(text, i, j) ==
    /\ i < j
    /\ Char(text, i) = "<"
    /\ Char(text, j) = ">"
    /\ Balanced(SubSeq(text, i + 1, j - 1))

\* The characters of a text that are not angle brackets and do not lie
\* inside a matching pair, in their order
OutsideMatchingPairs(text) ==
    LET kept == {k \in 1..Len(text) :
                    /\ Char(text, k) \notin {"<", ">"}
                    /\ ~\E i \in 1..(k - 1), j \in (k + 1)..Len(text) : MatchingPair(text, i, j)}
        order == SortedSeq(kept)
    IN Join([n \in 1..Len(order) |-> Char(text, order[n])], "")

\* C28: the result holds exactly the characters outside every matching pair
\* of angle brackets, in order and without the brackets, also when the text
\* holds an unmatched ">"; it holds no "<" or ">"; and applying the function
\* twice gives what applying it once gives.
C28_OutsideMatchingPairsKept ==
    pc = "generic_return" =>
        /\ ret.once = OutsideMatchingPairs(arg)
        /\ ~Contains(ret.once, "<")
        /\ ~Contains(ret.once, ">")
        /\ ret.twice = ret.once

\* What holds: for a balanced text the result is the text outside the
\* matching pairs; for every text the result holds no angle bracket, and
\* the second application changes nothing.
GenericBalancedKept ==
    pc = "generic_return" =>
        /\ Balanced(arg) => ret.once = OutsideMatchingPairs(arg)
        /\ ~Contains(ret.once, "<")
        /\ ~Contains(ret.once, ">")
        /\ ret.twice = ret.once

\* The text after an unmatched ">" has been dropped: "a>b" gives "a".
GenericAfterUnmatchedDropped ==
    /\ pc = "generic_return"
    /\ arg = "a>b"
    /\ ret.once = "a"

(***************************************************************************)
(* harmony_checks.py: the outer loops of the two patch rules, one          *)
(* iteration at a time                                                     *)
(***************************************************************************)
RestartAtAttribute(i, j) == i

\* "i = j": the outer loop continues where the look-ahead stopped.
RestartIndex(i, j) == j

\* One iteration of the outer loop of check_harmony_patch_class_declaration
\* at index i: the next index, the issues appended, and whether lines[i] was
\* handled as a [HarmonyPatch] attribute.
PatchClassIteration(file_path, lines, i) ==
    LET line == Strip(lines[i + 1])
        attr_name == _is_attribute_line(line)
        ahead == PatchClassLookAhead(file_path, lines, i, i + 1)
        malformed == IF ~ahead.declaration_found
                     THEN <<Issue(clean_file_path(file_path), i + 1, "error", "BCS051",
                                  "[HarmonyPatch] attribute found but no recognizable declaration follows")>>
                     ELSE <<>>
    IN IF line = "" \/ StartsWith(line, "//") \/ StartsWith(line, "*")
       THEN [i |-> i + 1, issues |-> <<>>, attribute |-> FALSE]
       ELSE IF attr_name = Some("HarmonyPatch")
       THEN [i |-> RestartIndex(i, ahead.j), issues |-> ahead.issues \o malformed, attribute |-> TRUE]
       ELSE [i |-> i + 1, issues |-> <<>>, attribute |-> FALSE]

\* One iteration of the outer loop of check_harmony_patch_method_declaration
PatchMethodIteration(file_path, content, lines, i) ==
    LET line == Strip(lines[i + 1])
        attr_name == _is_attribute_line(line)
        attrs == CollectAttributes(lines, i + 1, <<attr_name.value>>, Contains(attr_name.value, "Transpiler"))
        ahead == PatchMethodLookAhead(file_path, content, lines, i, attrs.k, attrs, -1, <<>>)
        orphan == IF ~ahead.method_found
                  THEN <<Issue(clean_file_path(file_path), i + 1, "error", "BCS054",
                               "[" \o Join(attrs.all_attributes, ", ")
                               \o "] attribute(s) found but no method declaration follows")>>
                  ELSE <<>>
    IN IF line = "" \/ StartsWith(line, "//") \/ StartsWith(line, "*")
       THEN [i |-> i + 1, issues |-> <<>>, attribute |-> FALSE]
       ELSE IF attr_name.some /\ attr_name.value \in Range(harmony_method_attributes)
       THEN [i |-> RestartIndex(i, ahead.j), issues |-> ahead.issues \o orphan, attribute |-> TRUE]
       ELSE [i |-> i + 1, issues |-> <<>>, attribute |-> FALSE]

(***************************************************************************)
(* SpecScan: the two outer loops on every short file                       *)
(***************************************************************************)
MaxScanLines == 3

ScanLines ==
    {"", "[HarmonyPatch]", "[HarmonyPrefix]", "[HarmonyTranspiler]", "public class Foo {",
     "static void Prefix()", "void Prefix() {", "int x = 1;"}

\* The iterations of the outer loop of a rule on a file, by index: the
\* iteration at index i is steps[i + 1].
ScanIterations(rule, lines) ==
    LET content == Join(lines, "\n")
        file_lines == Split(content, "\n")
    IN [n \in 1..Len(file_lines) |->
            IF rule = "patch_class"
            THEN PatchClassIteration(RuleFile, file_lines, n - 1)
            ELSE PatchMethodIteration(RuleFile, content, file_lines, n - 1)]

ScanInputs ==
    {[rule |-> r, lines |-> l, steps |-> ScanIterations(r, l)] :
        r \in {"patch_class", "patch_method"}, l \in Seqs(ScanLines, MaxScanLines)}

\* ret holds the index i of the outer loop, the issues so far, and for every
\* attribute handled so far its line and the issues it gave.
InitScan ==
    /\ pc = "scan_loop"
    /\ arg \in ScanInputs
    /\ ret = [i |-> 0, issues |-> <<>>, handled |-> <<>>]
    /\ OrchestratorIdle

ScanStep(step) ==
    /\ ret' = [i |-> step.i,
               issues |-> ret.issues \o step.issues,
               handled |-> IF step.attribute
                           THEN Append(ret.handled, [line |-> ret.i + 1, issues |-> step.issues])
                           ELSE ret.handled]
    /\ pc' = "scan_loop"
    /\ UNCHANGED <<forbidden_strings, roslyn, cs_files, fidx, all_issues, checked, errors, warnings, success, exit_code, arg>>

ScanPatchClass ==
    /\ pc = "scan_loop"
    /\ arg.rule = "patch_class"
    /\ ret.i < Len(arg.steps)
    /\ ScanStep(arg.steps[ret.i + 1])

ScanPatchMethod ==
    /\ pc = "scan_loop"
    /\ arg.rule = "patch_method"
    /\ ret.i < Len(arg.steps)
    /\ ScanStep(arg.steps[ret.i + 1])

\* "while i < len(lines)" is false: return issues
ScanReturn ==
    /\ pc = "scan_loop"
    /\ ret.i >= Len(arg.steps)
    /\ pc' = "scan_done"
    /\ UNCHANGED <<forbidden_strings, roslyn, cs_files, fidx, all_issues, checked, errors, warnings, success, exit_code, arg, ret>>

NextScan ==
    \/ ScanPatchClass
    \/ ScanPatchMethod
    \/ ScanReturn

\* The loops run on: a Python loop that can take its next step takes it.
SpecScan == InitScan /\ [][NextScan]_vars /\ WF_vars(NextScan)

\* The index of the outer loop grows with every iteration.
ScanIndexIncreases == (pc = "scan_loop" /\ pc' = "scan_loop") => ret'.i > ret.i

\* No line is handled as an attribute twice, and an attribute gives at most
\* one issue of BCS050 and BCS051, and at most one of BCS052 and BCS054.
ScanAtMostOnce ==
    /\ \A m, n \in 1..Len(ret.handled) : ret.handled[m].line = ret.handled[n].line => m = n
    /\ \A n \in 1..Len(ret.handled) :
           /\ Cardinality({k \in 1..Len(ret.handled[n].issues) :
                               ret.handled[n].issues[k].code \in {"BCS050", "BCS051"}}) <= 1
           /\ Cardinality({k \in 1..Len(ret.handled[n].issues) :
                               ret.handled[n].issues[k].code \in {"BCS052", "BCS054"}}) <= 1

\* The loop taken one iteration at a time returns what the rule returns.
ScanIsTheRule ==
    pc = "scan_done" =>
        ret.issues = IF arg.rule = "patch_class"
                     THEN check_harmony_patch_class_declaration(RuleFile, Join(arg.lines, "\n"))
                     ELSE check_harmony_patch_method_declaration(RuleFile, Join(arg.lines, "\n"))

\* C29: both rules terminate on every file; the index of the outer loop
\* strictly increases on every iteration, the restart index taken from the
\* look-ahead included, so every attribute line is handled at most once and
\* gives at most one of BCS050/BCS051, respectively BCS052/BCS054.
C29_ScansTerminate ==
    /\ [][ScanIndexIncreases]_vars
    /\ []ScanAtMostOnce
    /\ <>(pc = "scan_done")

\* C29 witness: a scan has ended in which the attribute of line 1 gave
\* BCS050 for the class below it and the attribute of line 3, the last line,
\* gave BCS051.
C29_Witness ==
    /\ pc = "scan_done"
    /\ arg.rule = "patch_class"
    /\ arg.lines = <<"[HarmonyPatch]", "public class Foo {", "[HarmonyPatch]">>
    /\ Len(ret.handled) = 2
    /\ ret.handled[1].line = 1
    /\ ret.handled[1].issues[1].code = "BCS050"
    /\ ret.handled[2].line = 3
    /\ ret.handled[2].issues[1].code = "BCS051"

(***************************************************************************)
(* SpecRuns: successive runs of run_all_checks in one directory            *)
(***************************************************************************)
\* The stages of run_all_checks that touch the directory, in the order of
\* its statements: cleanup_old_result_files (line 309), find_cs_files with
\* the early return (lines 314-317), the checks and write_results (line 335).
WriteBeforeCleanup == <<"run_report", "run_find", "run_cleanup">>

RunOrder == <<"run_cleanup", "run_find", "run_report">>

StageAfter(stage) ==
    LET n == CHOOSE k \in 1..Len(RunOrder) : RunOrder[k] = stage
    IN IF n < Len(RunOrder) THEN RunOrder[n + 1] ELSE "run_done"

\* The instants at which a run may reach write_results: thirty seconds apart,
\* MaxRunsPerWindow at the start of each of the three windows.
MaxRunsPerWindow == 2

RunInstants == Len(WindowStarts) * MaxRunsPerWindow

\* datetime.now().strftime("%Y%m%d_%H%M%S") at the n-th instant
RunTimestamp(n) ==
    LET w == ((n - 1) \div MaxRunsPerWindow) + 1
        k == (n - 1) % MaxRunsPerWindow
    IN "20260101_" \o TwoDigits(WindowStarts[w].hour)
          \o TwoDigits(WindowStarts[w].minute + (k \div 2)) \o TwoDigits(30 * (k % 2))

\* The directories the first run may find: empty, renamed files only, and
\* one crowded with MaxPerWindow result files in every window.
RunDirectories ==
    {{},
     RenamedFiles,
     RenamedFiles \cup {ResultFile(w, k) : w \in 1..Len(WindowStarts), k \in 0..(MaxPerWindow - 1)}}

RunBegins(disk, clock, finished) ==
    [disk |-> disk, clock |-> clock, finished |-> finished,
     pruned |-> FALSE, written |-> "", lost |-> FALSE]

InitRuns ==
    /\ pc = RunOrder[1]
    /\ arg \in RunDirectories
    /\ ret = RunBegins(arg, 1, FALSE)
    /\ OrchestratorIdle

\* deleted_files = Reporter.cleanup_old_result_files(keep_latest=5)
RunCleanup ==
    /\ pc = "run_cleanup"
    /\ LET r == cleanup_old_result_files(ret.disk, 5, {})
       IN ret' = [ret EXCEPT !.disk = r.disk,
                             !.pruned = TRUE,
                             !.lost = (ret.written # "" /\ ret.written \notin r.disk)]
    /\ pc' = StageAfter("run_cleanup")
    /\ UNCHANGED <<forbidden_strings, roslyn, cs_files, fidx, all_issues, checked, errors, warnings, success, exit_code, arg>>

\* if not cs_files: return True
RunNoFiles ==
    /\ pc = "run_find"
    /\ pc' = "run_done"
    /\ UNCHANGED <<forbidden_strings, roslyn, cs_files, fidx, all_issues, checked, errors, warnings, success, exit_code, arg, ret>>

\* C# files are found and checked; the checks do not touch the directory.
RunCheckFiles ==
    /\ pc = "run_find"
    /\ pc' = StageAfter("run_find")
    /\ UNCHANGED <<forbidden_strings, roslyn, cs_files, fidx, all_issues, checked, errors, warnings, success, exit_code, arg, ret>>

\* results_file = Reporter.write_results(...); an existing file of the same
\* second is overwritten.
RunReport ==
    /\ pc = "run_report"
    /\ \E writable \in BOOLEAN :
          LET w == write_results(<<>>, <<>>, 1, ParsingMethod(FALSE), RunTimestamp(ret.clock), writable)
          IN ret' = [ret EXCEPT !.disk = IF w.written THEN @ \cup {w.results_file} ELSE @,
                                !.written = w.results_file]
    /\ pc' = StageAfter("run_report")
    /\ UNCHANGED <<forbidden_strings, roslyn, cs_files, fidx, all_issues, checked, errors, warnings, success, exit_code, arg>>

\* The process exits; the next run starts in the same second or later.
RunAgain ==
    /\ pc = "run_done"
    /\ \E later \in 0..1 :
          /\ ret.clock + later <= RunInstants
          /\ ret' = RunBegins(ret.disk, ret.clock + later, TRUE)
    /\ pc' = RunOrder[1]
    /\ UNCHANGED <<forbidden_strings, roslyn, cs_files, fidx, all_issues, checked, errors, warnings, success, exit_code, arg>>

NextRuns == RunCleanup \/ RunNoFiles \/ RunCheckFiles \/ RunReport \/ RunAgain

SpecRuns == InitRuns /\ [][NextRuns]_vars

\* A step that writes the result file follows the pruning of its run, and a
\* pruning step is taken by a run that has written nothing yet.
RunSequenced ==
    /\ (ret.written = "" /\ ret'.written # "") => ret.pruned
    /\ (~ret.pruned /\ ret'.pruned) => ret.written = ""

\* The file a run wrote is in the directory and was not removed by that run.
RunKeepsOwnFile == ret.written # "" => (ret.written \in ret.disk /\ ~ret.lost)

\* From the first pruning on, at most the cap plus the file just written.
RunAtMostEleven ==
    /\ (ret.finished \/ ret.pruned) => Cardinality(ValidNames(ret.disk)) <= GlobalLimit + 1
    /\ (ret.pruned /\ ret.written = "") => Cardinality(ValidNames(ret.disk)) <= GlobalLimit

\* C30: within one run of run_all_checks the pruning of old result files
\* completes before the new result file is written; the file a run writes is
\* never deleted by that run; and after any sequence of runs with succeeding
\* deletions the directory holds at most 11 validly named result files.
C30_PruneThenWrite ==
    /\ [][RunSequenced]_vars
    /\ []RunKeepsOwnFile
    /\ []RunAtMostEleven

\* A later run has pruned to the cap and written its file as the eleventh.
C30_Witness ==
    /\ pc = "run_done"
    /\ ret.finished
    /\ ret.pruned
    /\ ret.written \in ret.disk
    /\ Cardinality(ValidNames(ret.disk)) = GlobalLimit + 1

\* A run on a crowded directory writes a file older than files it kept.
RunWritesOlderFile ==
    /\ pc = "run_done"
    /\ ret.written \in ret.disk
    /\ \E f \in ValidFiles(ret.disk) : \E g \in ValidFiles({ret.written}) : Earlier(g.timestamp, f.timestamp)

====
